---- MODULE Spec2Model ----
(***************************************************************************)
(* Layer publication of aws_lambda_artifact_builder: change detection on   *)
(* the dependency manifest, registration of a new layer version, archival  *)
(* of the manifest under the version's S3 prefix, and the workflow that    *)
(* chains the stages.                                                      *)
(*                                                                         *)
(* Text is a sequence of code points, file content a sequence of bytes,    *)
(* an S3 key or an ARN a sequence of string tokens.                        *)
(***************************************************************************)
EXTENDS Integers, Sequences, FiniteSets, TLC

VARIABLES
    manifest,              \* bytes of the local dependency manifest (path_manifest)
    s3,                    \* remote objects: S3 key -> bytes, DOMAIN = keys present
    layer_versions,        \* versions of the layer registered on the platform
    latest_layer_version,  \* cached_property of the publisher instance
    pc,                    \* position of the running call
    mode,                  \* which entry point is running
    flag,                  \* result of has_dependency_manifest_changed
    response,              \* LayerVersionArn returned by the registration
    layer_version,         \* version parsed from the ARN
    ret,                   \* result of the last publish_layer_version call
    hist,                  \* what the running call did and where it started
    prev,                  \* the preceding finished call
    since,                 \* another actor acted since the last call finished
    layer_zip,             \* bytes of build/lambda/layer/layer.zip, if any
    wf,                    \* the workflow's run: position and stages so far
    fs,                    \* local disk: the paths present under the project root
    bld,                   \* the running build call, or the last call if a build
    mv,                    \* the running move_to_dir_python call, or the last call if a move
    seg,                   \* version segments rendered for a pair of versions
    cred,                  \* a Credentials object, its dump file, what load gave
    mt,                    \* an is_match call: its arguments and what it gave
    ctr,                   \* a containerized build: the builder, the container script
    login,                 \* a _poetry_login / _uv_login call and os.environ
    zp                     \* a create_layer_zip_file call: packages, arguments, archive

publisher_vars ==
    <<manifest, s3, layer_versions, latest_layer_version, pc, mode, flag,
      response, layer_version, ret, hist, prev, since, layer_zip, wf>>

local_vars == <<fs, bld, mv, seg, cred>>

tool_vars == <<mt, ctr, login, zp>>

vars == <<publisher_vars, local_vars, tool_vars>>

(***************************************************************************)
(* Bounds and inputs                                                       *)
(***************************************************************************)
\* the platform hands out version numbers 1..MaxVersion
MaxVersion == 2

\* str.zfill width of the version segment
ZFILL == 6

LF == 10
CR == 13

\* manifests the user may have on disk: "a\n", "a\r\n", "b\n"
Manifests == { <<97, LF>>, <<97, CR, LF>>, <<98, LF>> }

\* content of layer.zip, by fingerprint
Zips == { <<1>>, <<2>> }

layer_name == "my_layer"

\* name of the manifest file of the build tool in use (uv)
manifest_name == "uv.lock"

Unset == -1      \* cached_property not computed yet
NoVersion == 0   \* get_latest_layer_version returned None

(***************************************************************************)
(* Python and library functions                                            *)
(***************************************************************************)
Digits == <<"0", "1", "2", "3", "4", "5", "6", "7", "8", "9">>

DigitVal(c) == (CHOOSE i \in 1..10 : Digits[i] = c) - 1

RECURSIVE str(_)
\* str(n) for n >= 0: decimal digits, no padding
str(n) == IF n < 10 THEN <<Digits[n + 1]>>
          ELSE str(n \div 10) \o <<Digits[(n % 10) + 1]>>

\* (mutant) no padding
zfill_without_padding(s, width) == s

\* s.zfill(width): left-pad with "0", never truncates
zfill(s, width) ==
    IF Len(s) >= width THEN s
    ELSE [i \in 1..(width - Len(s)) |-> "0"] \o s

RECURSIVE int(_)
\* int(s) for a non-empty string of decimal digits
int(s) == IF Len(s) = 1 THEN DigitVal(s[1])
          ELSE 10 * int(SubSeq(s, 1, Len(s) - 1)) + DigitVal(s[Len(s)])

\* s.split(":")[-1]: the tokens after the last ":"
split_last(s) ==
    LET seps == { i \in 1..Len(s) : s[i] = ":" }
        last == IF seps = {} THEN 0
                ELSE CHOOSE i \in seps : \A j \in seps : j <= i
    IN  SubSeq(s, last + 1, Len(s))

\* bytes.decode("utf-8"): the manifests modelled are ASCII, where every byte
\* is the code point of the same number
decode(bytes) == [i \in 1..Len(bytes) |-> bytes[i]]

RECURSIVE universal_newlines(_)
\* text mode with newline=None: "\r\n" and "\r" are read as "\n"; the text
\* is translated in two halves, cut where no "\r\n" is split
universal_newlines(t) ==
    IF Len(t) = 0 THEN <<>>
    ELSE IF Len(t) = 1 THEN (IF t[1] = CR THEN <<LF>> ELSE t)
    ELSE IF t = <<CR, LF>> THEN <<LF>>
    ELSE LET half == Len(t) \div 2
             cut == IF t[half] = CR /\ t[half + 1] = LF THEN half + 1 ELSE half
         IN  universal_newlines(SubSeq(t, 1, cut))
                 \o universal_newlines(SubSeq(t, cut + 1, Len(t)))

\* pathlib.Path.read_text(): open(mode="r") then read()
Path_read_text(bytes) == universal_newlines(decode(bytes))

\* s3pathlib.S3Path.read_text(): read_bytes().decode("utf-8")
S3Path_read_text(bytes) == decode(bytes)

\* pathlib.Path.read_bytes()
Path_read_bytes(bytes) == bytes

(***************************************************************************)
(* Layouts                                                                 *)
(***************************************************************************)
\* LayerS3Layout.s3path_temp_layer_zip
s3path_temp_layer_zip == <<"layer", "/", "layer.zip">>

\* LayerS3Layout.get_s3dir_layer_version
get_s3dir_layer_version(version) ==
    <<"layer", "/">> \o zfill(str(version), ZFILL) \o <<"/">>

\* LambdaLayerVersionPublisher.get_versioned_manifest
get_versioned_manifest(version) ==
    get_s3dir_layer_version(version) \o <<manifest_name>>

\* the identifier the platform returns for a registered version
LayerVersionArn(version) ==
    <<"arn", ":", "aws", ":", "lambda", ":", "us-east-1", ":", "111122223333",
      ":", "layer", ":", layer_name, ":">> \o str(version)

Max(S) == CHOOSE x \in S : \A y \in S : y <= x

\* simple_aws_lambda.get_latest_layer_version: None when there is none
get_latest_layer_version ==
    IF layer_versions = {} THEN NoVersion ELSE Max(layer_versions)

(***************************************************************************)
(* Bookkeeping of calls                                                    *)
(***************************************************************************)
NoResult == [kind |-> "none", at |-> "", flag |-> "unset", layer_name |-> "",
             layer_version |-> 0, layer_version_arn |-> <<>>,
             s3path_manifest |-> <<>>]

\* return value None
ReturnNone == [NoResult EXCEPT !.kind = "None"]

\* return value of has_dependency_manifest_changed
ReturnFlag(f) == [NoResult EXCEPT !.kind = "flag", !.flag = f]

\* an exception leaves the call at position p
Raised(p) == [NoResult EXCEPT !.kind = "raised", !.at = p]

\* the process is stopped at position p
Interrupted(p) == [NoResult EXCEPT !.kind = "interrupted", !.at = p,
                                   !.layer_version = layer_version]

\* (layer_version, layer_version_arn) returned by the publisher's method
Registered(version, arn) ==
    [NoResult EXCEPT !.kind = "registered", !.layer_version = version,
                     !.layer_version_arn = arn]

\* the S3Path returned by the publisher's upload_dependency_manifest
Uploaded(s3path) ==
    [NoResult EXCEPT !.kind = "uploaded", !.s3path_manifest = s3path]

\* LayerDeployment(layer_name, layer_version, layer_version_arn, s3path_manifest)
LayerDeployment(name, version, arn, s3path) ==
    [NoResult EXCEPT !.kind = "LayerDeployment", !.layer_name = name,
                     !.layer_version = version, !.layer_version_arn = arn,
                     !.s3path_manifest = s3path]

\* marks an object that is not there
Absent == <<0 - 1>>

\* the object archived for version, if any
Archived(version) ==
    IF get_versioned_manifest(version) \in DOMAIN s3
    THEN s3[get_versioned_manifest(version)] ELSE Absent

NewHist == [start_manifest |-> manifest,
            start_latest |-> get_latest_layer_version,
            start_archived |-> Archived(get_latest_layer_version),
            events |-> <<>>, puts |-> <<>>, between |-> since,
            during |-> FALSE]

Log(e) == [hist EXCEPT !.events = Append(@, e)]

Count(e) == Cardinality({ i \in 1..Len(hist.events) : hist.events[i] = e })

\* S3Path.write_bytes / put_object at key
write_bytes(key, bytes) ==
    [k \in DOMAIN s3 \cup {key} |-> IF k = key THEN bytes ELSE s3[k]]

(***************************************************************************)
(* LayerPathLayout and the local disk                                      *)
(***************************************************************************)
\* paths are sequences of names below the project root
path_pyproject_toml == <<"pyproject.toml">>
path_requirements_txt == <<"requirements.txt">>
path_poetry_lock == <<"poetry.lock">>
path_uv_lock == <<"uv.lock">>
path_build_lambda_layer_in_container_script_in_local ==
    <<"build_lambda_layer_in_container.py">>
dir_build_lambda_layer == <<"build", "lambda", "layer">>
path_build_lambda_layer_zip == dir_build_lambda_layer \o <<"layer.zip">>
dir_repo == dir_build_lambda_layer \o <<"repo">>
path_tmp_pyproject_toml == dir_repo \o path_pyproject_toml
path_tmp_poetry_lock == dir_repo \o path_poetry_lock
path_tmp_uv_lock == dir_repo \o path_uv_lock
path_private_repository_credentials_in_local ==
    dir_repo \o <<"private-repository-credentials.json">>
dir_artifacts == dir_build_lambda_layer \o <<"artifacts">>
dir_python == dir_artifacts \o <<"python">>

\* where poetry and uv install: the in-project virtual environment
dir_site_packages ==
    dir_repo \o <<".venv", "lib", "python3.x", "site-packages">>

\* an installed dependency, and one left by an earlier build
pkg == <<"pkg">>
old_pkg == <<"old_pkg">>

Tools == {"pip", "poetry", "uv"}

\* the files a tool needs at the project root
ProjectFiles ==
    {path_pyproject_toml, path_requirements_txt, path_poetry_lock, path_uv_lock}

\* p is dir or lies below it
IsUnder(dir, p) == Len(p) >= Len(dir) /\ SubSeq(p, 1, Len(dir)) = dir

\* p and the directories above it
parents(p) == { SubSeq(p, 1, n) : n \in 1..Len(p) }

\* what dir holds, as paths relative to dir
listing(files, dir) ==
    { SubSeq(p, Len(dir) + 1, Len(p)) : p \in { q \in files : IsUnder(dir, q) /\ q /= dir } }

\* shutil.rmtree(dir)
rmtree(files, dir) == { p \in files : ~IsUnder(dir, p) }

\* Path.mkdir(parents=True, exist_ok=True)
mkdir(files, dir) == files \cup parents(dir)

\* shutil.copy(p_src, p_dst) of an existing file into an existing directory
copy(files, p_src, p_dst) == files \cup {p_dst}

\* shutil.move(src, dst) where dst does not exist: a rename of the tree
move(files, src, dst) ==
    rmtree(files, src) \cup parents(dst)
        \cup { dst \o rel : rel \in listing(files, src) }

\* LayerPathLayout.mkdirs
mkdirs(files) == mkdir(mkdir(files, dir_repo), dir_python)

\* no build call has been made
NoBuild == [pc |-> "idle", tool |-> "none", where |-> "none",
            skip_prompt |-> FALSE, credentials |-> FALSE, prompt |-> "none",
            steps |-> <<>>, outcome |-> "none", exit |-> 0, runs |-> 0,
            fs_start |-> {}, tool_left |-> {}]

\* no move_to_dir_python call has been made
NoMove == [pc |-> "idle", src |-> <<>>, outcome |-> "none", fs_start |-> {},
           fs_end |-> {}]

\* nothing has been rendered
NoSeg == [pc |-> "idle", width |-> 0, a |-> 0, b |-> 0, seg_a |-> <<>>,
          seg_b |-> <<>>]

\* a Credentials object whose four fields are empty strings
EmptyCredentials ==
    [index_name |-> <<>>, index_url |-> <<>>, username |-> <<>>,
     password |-> <<>>]

\* no Credentials object has been dumped
NoCred == [pc |-> "idle", c |-> EmptyCredentials, linesep |-> <<>>,
           file |-> <<>>, loaded |-> EmptyCredentials, outcome |-> "none"]

\* the publisher and the workflow have not run
\* no is_match call
NoMatch == [pc |-> "idle", path_parts |-> <<>>, include |-> <<>>,
            exclude |-> <<>>, result |-> "none"]

\* no containerized build and no container script running; credentials is
\* a sequence of no or one Credentials object, content the Credentials
\* objects held by the credentials files on the disk
NoContainer ==
    [pc |-> "idle", launched |-> "none", tool |-> "none", is_arm |-> FALSE,
     credentials |-> <<>>, args |-> <<>>, outcome |-> "none",
     dir_here |-> <<>>, cwd |-> <<>>, script |-> "none", events |-> <<>>,
     pending |-> <<>>, used |-> <<>>, content |-> <<>>]

\* no login call; environ is os.environ, assigned the keys the call set
NoLogin == [pc |-> "idle", tool |-> "none", index_name |-> <<>>,
            username |-> "", password |-> "", environ |-> <<>>,
            assigned |-> <<>>]

\* no create_layer_zip_file call; ignore_package_list is a sequence of no
\* list (None) or one list
NoZip == [pc |-> "idle", installed |-> {}, ignore_package_list |-> <<>>,
          args |-> <<>>, archived |-> {}]

\* the helpers are not in use
InitToolsIdle ==
    /\ mt = NoMatch
    /\ ctr = NoContainer
    /\ login = NoLogin
    /\ zp = NoZip

InitPublisher ==
    /\ layer_versions = {}
    /\ latest_layer_version = Unset
    /\ pc = "idle"
    /\ mode = "none"
    /\ flag = "unset"
    /\ response = <<>>
    /\ layer_version = 0
    /\ ret = NoResult
    /\ hist = [start_manifest |-> manifest, start_latest |-> NoVersion,
               start_archived |-> Absent, events |-> <<>>, puts |-> <<>>,
               between |-> FALSE, during |-> FALSE]
    /\ prev = NoResult
    /\ since = FALSE
    /\ wf = [pc |-> "idle", stages |-> <<>>, outcome |-> "none"]

\* the local disk plays no part
InitLocalIdle ==
    /\ fs = {}
    /\ bld = NoBuild
    /\ mv = NoMove
    /\ seg = NoSeg
    /\ cred = NoCred

\* nothing has run; the bucket holds no object
InitCommon ==
    /\ manifest \in Manifests
    /\ InitPublisher
    /\ InitLocalIdle
    /\ InitToolsIdle

\* the publisher, the bucket and the workflow play no part
InitPublisherIdle ==
    /\ manifest = <<97, LF>>
    /\ InitPublisher
    /\ layer_zip = Absent
    /\ s3 = <<>>

\* the state after Build, Package and Upload: layer.zip is at the transient key
Init ==
    /\ InitCommon
    /\ layer_zip = <<1>>
    /\ s3 = [k \in {s3path_temp_layer_zip} |-> layer_zip]

\* the state before the workflow has run
InitWorkflow ==
    /\ InitCommon
    /\ layer_zip = Absent
    /\ s3 = <<>>

(***************************************************************************)
(* publish.py                                                              *)
(***************************************************************************)
\* the call returns r (or raises): control goes back to the caller, which
\* for the workflow's publish stage is run()
Finish(r) ==
    /\ pc' = "idle"
    /\ ret' = r
    /\ since' = FALSE
    /\ wf' = IF mode = "workflow"
             THEN [wf EXCEPT !.pc = "idle",
                             !.stages = IF r.kind \in {"raised", "interrupted"}
                                        THEN @ ELSE Append(@, "publish.return"),
                             !.outcome = IF r.kind \in {"raised", "interrupted"}
                                         THEN r.kind ELSE "returned"]
             ELSE wf

\* the call goes on
Continue == UNCHANGED <<ret, since, wf>>

\* what follows has_dependency_manifest_changed returning f: the method's
\* own caller gets f; publish_layer_version returns None on False and goes
\* on to register on True
Detected(f) ==
    /\ flag' = f
    /\ IF mode = "detect" THEN Finish(ReturnFlag(f))
       ELSE IF f = "False" THEN Finish(ReturnNone)
       ELSE pc' = "register" /\ Continue

\* a call starts on a publisher instance
Enter(m, fresh) ==
    /\ pc = "idle"
    /\ pc' = "latest"
    /\ mode' = m
    /\ latest_layer_version' = IF fresh THEN Unset ELSE latest_layer_version
    /\ flag' = "unset"
    /\ response' = <<>>
    /\ layer_version' = 0
    /\ hist' = NewHist
    /\ prev' = ret
    /\ UNCHANGED <<manifest, s3, layer_versions, ret, since, layer_zip>>
    /\ UNCHANGED <<local_vars, tool_vars>>

\* publish_layer_version(...): a new publisher instance, then change detection
publish_layer_version ==
    /\ wf.pc = "idle"
    /\ Enter("publish", TRUE)
    /\ UNCHANGED wf

\* publisher.has_dependency_manifest_changed() called by the user, on a new
\* instance or on the instance of the preceding such call
has_dependency_manifest_changed(fresh) ==
    /\ wf.pc = "idle"
    /\ fresh \/ mode \in {"detect", "register", "archive"}
    /\ Enter("detect", fresh)
    /\ UNCHANGED wf

\* the test for None answers "unchanged"
query_latest_layer_version_none_is_unchanged ==
    /\ pc = "latest"
    /\ LET cached == latest_layer_version /= Unset
           latest == IF cached THEN latest_layer_version
                     ELSE get_latest_layer_version
       IN  /\ latest_layer_version' = latest
           /\ hist' = IF cached THEN hist ELSE Log("get_latest")
           /\ IF latest = NoVersion
              THEN Detected("False")
              ELSE pc' = "exists" /\ UNCHANGED flag /\ Continue
    /\ UNCHANGED <<manifest, s3, layer_versions, mode, response, layer_version,
                   prev, layer_zip>>
    /\ UNCHANGED <<local_vars, tool_vars>>

\* the platform is asked at every detection
query_latest_layer_version_uncached ==
    /\ pc = "latest"
    /\ latest_layer_version' = get_latest_layer_version
    /\ hist' = Log("get_latest")
    /\ IF get_latest_layer_version = NoVersion
       THEN Detected("True")
       ELSE pc' = "exists" /\ UNCHANGED flag /\ Continue
    /\ UNCHANGED <<manifest, s3, layer_versions, mode, response, layer_version,
                   prev, layer_zip>>
    /\ UNCHANGED <<local_vars, tool_vars>>

\* self.latest_layer_version and the test for None
query_latest_layer_version ==
    /\ pc = "latest"
    /\ LET cached == latest_layer_version /= Unset
           latest == IF cached THEN latest_layer_version
                     ELSE get_latest_layer_version
       IN  /\ latest_layer_version' = latest
           /\ hist' = IF cached THEN hist ELSE Log("get_latest")
           /\ IF latest = NoVersion
              THEN Detected("True")
              ELSE pc' = "exists" /\ UNCHANGED flag /\ Continue
    /\ UNCHANGED <<manifest, s3, layer_versions, mode, response, layer_version,
                   prev, layer_zip>>
    /\ UNCHANGED <<local_vars, tool_vars>>

\* a missing archive answers "unchanged"
check_exists_missing_is_unchanged ==
    /\ pc = "exists"
    /\ hist' = Log("exists")
    /\ IF get_versioned_manifest(latest_layer_version) \notin DOMAIN s3
       THEN Detected("False")
       ELSE pc' = "read" /\ UNCHANGED flag /\ Continue
    /\ UNCHANGED <<manifest, s3, layer_versions, latest_layer_version, mode,
                   response, layer_version, prev, layer_zip>>
    /\ UNCHANGED <<local_vars, tool_vars>>

\* s3path_manifest.exists(...) is False: return True
check_exists ==
    /\ pc = "exists"
    /\ hist' = Log("exists")
    /\ IF get_versioned_manifest(latest_layer_version) \notin DOMAIN s3
       THEN Detected("True")
       ELSE pc' = "read" /\ UNCHANGED flag /\ Continue
    /\ UNCHANGED <<manifest, s3, layer_versions, latest_layer_version, mode,
                   response, layer_version, prev, layer_zip>>
    /\ UNCHANGED <<local_vars, tool_vars>>

\* local_manifest_content != stored_manifest_content
contents_differ(local_bytes, stored_bytes) ==
    Path_read_text(local_bytes) /= S3Path_read_text(stored_bytes)

\* detection refreshes the archive with the local manifest when they differ
read_and_compare_refreshing ==
    /\ pc = "read"
    /\ LET key == get_versioned_manifest(latest_layer_version)
       IN  IF key \notin DOMAIN s3
           THEN /\ hist' = Log("read_failed")
                /\ Finish(Raised("read"))
                /\ UNCHANGED <<flag, s3>>
           ELSE /\ hist' = Log("read")
                /\ s3' = IF contents_differ(manifest, s3[key])
                         THEN [s3 EXCEPT ![key] = manifest] ELSE s3
                /\ Detected(IF contents_differ(manifest, s3[key])
                            THEN "True" ELSE "False")
    /\ UNCHANGED <<manifest, layer_versions, latest_layer_version, mode,
                   response, layer_version, prev, layer_zip>>
    /\ UNCHANGED <<local_vars, tool_vars>>

\* path_manifest.read_text(), s3path_manifest.read_text(...), compare; the
\* remote read raises when the object is not there
read_and_compare ==
    /\ pc = "read"
    /\ LET key == get_versioned_manifest(latest_layer_version)
       IN  IF key \notin DOMAIN s3
           THEN /\ hist' = Log("read_failed")
                /\ Finish(Raised("read"))
                /\ UNCHANGED flag
           ELSE /\ hist' = Log("read")
                /\ Detected(IF contents_differ(manifest, s3[key])
                            THEN "True" ELSE "False")
    /\ UNCHANGED <<manifest, s3, layer_versions, latest_layer_version, mode,
                   response, layer_version, prev, layer_zip>>
    /\ UNCHANGED <<local_vars, tool_vars>>

\* the version the platform assigns to the next registration
next_layer_version == get_latest_layer_version + 1

\* LambdaLayerVersionPublisher.publish_layer_version: register the content at
\* the transient key, parse the version from the ARN; the platform refuses a
\* key that holds nothing
register_layer_version ==
    /\ pc = "register"
    /\ next_layer_version <= MaxVersion
    /\ IF s3path_temp_layer_zip \notin DOMAIN s3
       THEN /\ Finish(Raised("register"))
            /\ UNCHANGED <<layer_versions, response, layer_version, hist>>
       ELSE LET layer_version_arn == LayerVersionArn(next_layer_version)
            IN  /\ layer_versions' = layer_versions \cup {next_layer_version}
                /\ response' = layer_version_arn
                /\ layer_version' = int(split_last(layer_version_arn))
                /\ hist' = Log("register")
                /\ pc' = "archive"
                /\ Continue
    /\ UNCHANGED <<manifest, s3, latest_layer_version, mode, flag, prev,
                   layer_zip>>
    /\ UNCHANGED <<local_vars, tool_vars>>

\* the manifest goes to the path of the version detection compared against
archive_key_of_latest(version) == get_versioned_manifest(latest_layer_version)

\* the key upload_dependency_manifest writes for version
archive_key(version) == get_versioned_manifest(version)

\* the transient layer.zip is removed once the manifest is archived
upload_dependency_manifest_removing_layer_zip ==
    /\ pc = "archive"
    /\ LET s3path_manifest == archive_key(layer_version)
           written == write_bytes(s3path_manifest, Path_read_bytes(manifest))
       IN  /\ s3' = [k \in DOMAIN written \ {s3path_temp_layer_zip}
                       |-> written[k]]
           /\ hist' = [Log("put") EXCEPT !.puts = Append(@, s3path_manifest)]
           /\ Finish(LayerDeployment(layer_name, layer_version, response,
                                     s3path_manifest))
    /\ UNCHANGED <<manifest, layer_versions, latest_layer_version, mode, flag,
                   response, layer_version, prev, layer_zip>>
    /\ UNCHANGED <<local_vars, tool_vars>>

\* upload_dependency_manifest(version=layer_version), then the return of the
\* LayerDeployment
upload_dependency_manifest ==
    /\ pc = "archive"
    /\ LET s3path_manifest == archive_key(layer_version)
       IN  /\ s3' = write_bytes(s3path_manifest, Path_read_bytes(manifest))
           /\ hist' = [Log("put") EXCEPT !.puts = Append(@, s3path_manifest)]
           /\ Finish(LayerDeployment(layer_name, layer_version, response,
                                     s3path_manifest))
    /\ UNCHANGED <<manifest, layer_versions, latest_layer_version, mode, flag,
                   response, layer_version, prev, layer_zip>>
    /\ UNCHANGED <<local_vars, tool_vars>>

\* the process is stopped in the middle of a call
interrupt ==
    /\ pc /= "idle"
    /\ Finish(Interrupted(pc))
    /\ UNCHANGED <<manifest, s3, layer_versions, latest_layer_version, mode,
                   flag, response, layer_version, hist, prev, layer_zip>>
    /\ UNCHANGED <<local_vars, tool_vars>>

(***************************************************************************)
(* Other actors                                                            *)
(***************************************************************************)
Disturb ==
    IF pc = "idle"
    THEN since' = TRUE /\ UNCHANGED hist
    ELSE hist' = [hist EXCEPT !.during = TRUE] /\ UNCHANGED since

\* the user edits the dependency manifest
edit_manifest ==
    /\ \E m \in Manifests : m /= manifest /\ manifest' = m
    /\ Disturb
    /\ UNCHANGED <<s3, layer_versions, latest_layer_version, pc, mode, flag,
                   response, layer_version, ret, prev, layer_zip, wf>>
    /\ UNCHANGED <<local_vars, tool_vars>>

\* S3 delete_object at key
delete(key) == [k \in DOMAIN s3 \ {key} |-> s3[k]]

\* somebody removes an archived manifest from the bucket
delete_object ==
    /\ \E key \in DOMAIN s3 \ {s3path_temp_layer_zip} : s3' = delete(key)
    /\ Disturb
    /\ UNCHANGED <<manifest, layer_versions, latest_layer_version, pc, mode,
                   flag, response, layer_version, ret, prev, layer_zip, wf>>
    /\ UNCHANGED <<local_vars, tool_vars>>

\* somebody removes the transient layer.zip from the bucket
delete_layer_zip ==
    /\ s3path_temp_layer_zip \in DOMAIN s3
    /\ s3' = delete(s3path_temp_layer_zip)
    /\ Disturb
    /\ UNCHANGED <<manifest, layer_versions, latest_layer_version, pc, mode,
                   flag, response, layer_version, ret, prev, layer_zip, wf>>
    /\ UNCHANGED <<local_vars, tool_vars>>

(***************************************************************************)
(* workflow.py                                                             *)
(***************************************************************************)
publisher_idle ==
    /\ UNCHANGED <<manifest, layer_versions, latest_layer_version, pc, mode,
                   flag, response, layer_version, ret, hist, prev, since>>
    /\ UNCHANGED <<local_vars, tool_vars>>

\* the stages run() calls, in the order of its statements
run_stages == <<"package", "upload", "publish">>

\* the stage after stage, "idle" after the last
stage_after(stage) ==
    LET i == CHOOSE j \in 1..Len(run_stages) : run_stages[j] = stage
    IN  IF i = Len(run_stages) THEN "idle" ELSE run_stages[i + 1]

\* BuildPackageUploadAndPublishWorkflow.run() is called
workflow_run ==
    /\ wf.pc = "idle"
    /\ pc = "idle"
    /\ wf' = [pc |-> run_stages[1], stages |-> <<>>, outcome |-> "running"]
    /\ UNCHANGED <<s3, layer_zip>>
    /\ publisher_idle

\* (mutant) the exception of a stage is swallowed and run() goes on
StageRaises_and_goes_on(stage) ==
    wf' = [wf EXCEPT !.pc = stage_after(stage), !.stages = Append(@, stage),
                     !.outcome = "raised"]

\* a stage raises: run() propagates the exception
StageRaises(stage) ==
    wf' = [wf EXCEPT !.pc = "idle", !.stages = Append(@, stage),
                     !.outcome = "raised"]

\* a stage returns: run() goes on with the next statement
StageReturns(stage) ==
    wf' = [wf EXCEPT !.pc = stage_after(stage),
                     !.stages = @ \o <<stage, stage \o ".return">>,
                     !.outcome = IF stage_after(stage) = "idle"
                                 THEN "returned" ELSE @]

\* self.package(): zip the artifacts directory (subprocess.run, check=True)
workflow_package ==
    /\ wf.pc = "package"
    /\ \/ \E z \in Zips : layer_zip' = z /\ StageReturns("package")
       \/ UNCHANGED layer_zip /\ StageRaises("package")
    /\ UNCHANGED s3
    /\ publisher_idle

\* self.upload(): write layer.zip to the transient key
workflow_upload ==
    /\ wf.pc = "upload"
    /\ \/ /\ layer_zip /= Absent
          /\ s3' = write_bytes(s3path_temp_layer_zip, layer_zip)
          /\ StageReturns("upload")
       \/ UNCHANGED s3 /\ StageRaises("upload")
    /\ UNCHANGED layer_zip
    /\ publisher_idle

\* self.publish(): a publisher instance is built and run
workflow_publish ==
    /\ wf.pc = "publish"
    /\ Enter("workflow", TRUE)
    /\ wf' = [wf EXCEPT !.pc = "publishing", !.stages = Append(@, "publish")]

(***************************************************************************)
(* pip_builder.py, poetry_builder.py, uv_builder.py: local build           *)
(***************************************************************************)
\* exit statuses of an external process: success and failure
ExitCodes == {0, 1}

\* the lock file tool reads at the project root, and its copy in repo
path_lock(tool) == IF tool = "poetry" THEN path_poetry_lock ELSE path_uv_lock
path_tmp_lock(tool) ==
    IF tool = "poetry" THEN path_tmp_poetry_lock ELSE path_tmp_uv_lock

\* the files tool needs at the project root
needed_files(tool) ==
    IF tool = "pip" THEN {path_requirements_txt}
    ELSE {path_pyproject_toml, path_lock(tool)}

\* where the install command of tool puts the dependencies
install_target(tool) == IF tool = "pip" THEN dir_python ELSE dir_site_packages

\* the build root holds something
populated(files) == listing(files, dir_build_lambda_layer) /= {}

\* the build goes on at position next, having executed the steps names
Step(next, names) == [bld EXCEPT !.pc = next, !.steps = @ \o names]

\* the build ends with an exception raised in the last of the steps names
BuildRaises(names) ==
    [bld EXCEPT !.pc = "idle", !.steps = @ \o names, !.outcome = "raised"]

\* the build returns to its caller
BuildReturns == [bld EXCEPT !.pc = "idle", !.outcome = "returned"]

\* a build function is called
BuildCalled(where, tool, skip_prompt, credentials, first) ==
    [NoBuild EXCEPT !.pc = first, !.tool = tool, !.where = where,
                    !.skip_prompt = skip_prompt, !.credentials = credentials,
                    !.outcome = "running", !.fs_start = fs]

\* build_layer_artifacts_using_{pip,poetry,uv}_in_local(...): the builder is
\* made and step_01_print_info prints
build_layer_artifacts_in_local ==
    /\ bld.pc = "idle"
    /\ mv.pc = "idle"
    /\ \E tool \in Tools, skip_prompt \in BOOLEAN, credentials \in BOOLEAN :
          bld' = [BuildCalled("local", tool, skip_prompt, credentials,
                              "setup_build_dir")
                    EXCEPT !.steps = <<"print_info">>]
    /\ mv' = NoMove
    /\ UNCHANGED <<fs, seg, cred>>
    /\ UNCHANGED <<publisher_vars, tool_vars>>

\* (mutant) the build directory is removed whatever the user answers
clean_build_directory_whatever_the_answer(files, skip_prompt, answer) ==
    [raised |-> FALSE, files |-> rmtree(files, dir_build_lambda_layer)]

\* utils.clean_build_directory(dir_build, folder_alias, skip_prompt): asks
\* before it removes a build directory that holds something, unless
\* skip_prompt; the user declining is an error
clean_build_directory(files, skip_prompt, answer) ==
    IF populated(files) /\ ~skip_prompt /\ ~answer
    THEN [raised |-> TRUE, files |-> files]
    ELSE [raised |-> FALSE, files |-> rmtree(files, dir_build_lambda_layer)]

\* step_02_setup_build_dir: path_layout.clean, then path_layout.mkdirs
step_02_setup_build_dir ==
    /\ bld.pc = "setup_build_dir"
    /\ \E answer \in BOOLEAN :
          LET r == clean_build_directory(fs, bld.skip_prompt, answer)
              asked == populated(fs) /\ ~bld.skip_prompt
              prompt == IF ~asked THEN "none"
                        ELSE IF answer THEN "confirmed" ELSE "declined"
          IN  IF r.raised
              THEN /\ fs' = r.files
                   /\ bld' = [BuildRaises(<<"clean">>) EXCEPT !.prompt = prompt]
              ELSE /\ fs' = mkdirs(r.files)
                   /\ bld' = [Step(IF bld.tool = "pip" THEN "install"
                                   ELSE "prepare", <<"clean", "mkdirs">>)
                                EXCEPT !.prompt = prompt]
    /\ UNCHANGED <<mv, seg, cred>>
    /\ UNCHANGED <<publisher_vars, tool_vars>>

\* step_03_prepare_poetry_stuff / step_03_prepare_uv_stuff: copy
\* pyproject.toml, then the lock file, into repo; shutil.copy raises on a
\* missing source
step_03_prepare_stuff ==
    /\ bld.pc = "prepare"
    /\ IF path_pyproject_toml \notin fs
       THEN /\ UNCHANGED fs
            /\ bld' = BuildRaises(<<"copy_pyproject_toml">>)
       ELSE IF path_lock(bld.tool) \notin fs
       THEN /\ fs' = copy(fs, path_pyproject_toml, path_tmp_pyproject_toml)
            /\ bld' = BuildRaises(<<"copy_pyproject_toml", "copy_lock">>)
       ELSE /\ fs' = copy(copy(fs, path_pyproject_toml, path_tmp_pyproject_toml),
                          path_lock(bld.tool), path_tmp_lock(bld.tool))
            /\ bld' = Step("install", <<"copy_pyproject_toml", "copy_lock">>)
    /\ UNCHANGED <<mv, seg, cred>>
    /\ UNCHANGED <<publisher_vars, tool_vars>>

\* what the install command leaves on disk when it succeeds
installed(files, tool) == files \cup parents(install_target(tool) \o pkg)

\* what it may leave when it fails: nothing, or its target without the package
partly_installed(files, tool) ==
    {files, files \cup parents(install_target(tool))}

\* step_03_run_pip_install / step_04_run_poetry_install / step_04_run_uv_sync:
\* the credentials are given to the tool and the install command runs to its
\* exit; pip cannot succeed without requirements.txt
step_04_run_install ==
    /\ bld.pc = "install"
    /\ \E code \in ExitCodes :
          /\ (code = 0 /\ bld.tool = "pip") => path_requirements_txt \in fs
          /\ \E left \in IF code = 0 THEN {installed(fs, bld.tool)}
                         ELSE partly_installed(fs, bld.tool) :
                /\ fs' = left
                /\ bld' = [Step("install_exit",
                                IF bld.credentials
                                THEN <<"credentials", "install">>
                                ELSE <<"install">>)
                             EXCEPT !.exit = code, !.runs = @ + 1,
                                    !.tool_left = left]
    /\ UNCHANGED <<mv, seg, cred>>
    /\ UNCHANGED <<publisher_vars, tool_vars>>

\* (mutant) the build root is removed before the error is raised
subprocess_run_check_cleaning_up ==
    /\ bld.pc = "install_exit"
    /\ IF bld.exit /= 0
       THEN /\ fs' = rmtree(fs, dir_build_lambda_layer)
            /\ bld' = BuildRaises(<<>>)
       ELSE /\ UNCHANGED fs
            /\ bld' = BuildReturns
    /\ UNCHANGED <<mv, seg, cred>>
    /\ UNCHANGED <<publisher_vars, tool_vars>>

\* subprocess.run(args, cwd=dir_repo, check=True) comes back: a non-zero exit
\* status raises CalledProcessError, otherwise the step and the build return
subprocess_run_check ==
    /\ bld.pc = "install_exit"
    /\ UNCHANGED fs
    /\ bld' = IF bld.exit /= 0 THEN BuildRaises(<<>>) ELSE BuildReturns
    /\ UNCHANGED <<mv, seg, cred>>
    /\ UNCHANGED <<publisher_vars, tool_vars>>

(***************************************************************************)
(* common.py, builder.py: containerized build                              *)
(***************************************************************************)
\* build_layer_artifacts_using_{pip,poetry,uv}_in_container(...)
build_layer_artifacts_in_container ==
    /\ bld.pc = "idle"
    /\ mv.pc = "idle"
    /\ \E tool \in Tools, credentials \in BOOLEAN :
          bld' = BuildCalled("container", tool, TRUE, credentials,
                             "copy_build_script")
    /\ mv' = NoMove
    /\ UNCHANGED <<fs, seg, cred>>
    /\ UNCHANGED <<publisher_vars, tool_vars>>

\* step_01_copy_build_script: the script of the package goes to the project root
step_01_copy_build_script ==
    /\ bld.pc = "copy_build_script"
    /\ fs' = copy(fs, <<"script">>,
                  path_build_lambda_layer_in_container_script_in_local)
    /\ bld' = Step("credential", <<"copy_build_script">>)
    /\ UNCHANGED <<mv, seg, cred>>
    /\ UNCHANGED <<publisher_vars, tool_vars>>

\* step_02_setup_private_repository_credential: credentials.dump(path) writes
\* the file in repo; Path.write_text raises when repo is not there
step_02_setup_private_repository_credential ==
    /\ bld.pc = "credential"
    /\ IF ~bld.credentials
       THEN /\ UNCHANGED fs
            /\ bld' = Step("docker_run", <<>>)
       ELSE IF dir_repo \notin fs
       THEN /\ UNCHANGED fs
            /\ bld' = BuildRaises(<<"credentials">>)
       ELSE /\ fs' = fs \cup {path_private_repository_credentials_in_local}
            /\ bld' = Step("docker_run", <<"credentials">>)
    /\ UNCHANGED <<mv, seg, cred>>
    /\ UNCHANGED <<publisher_vars, tool_vars>>

\* what the script leaves when the build in the container succeeds: the local
\* build of the tool, run with skip_prompt=True on the mounted project root
built_in_container(files, tool) ==
    LET fresh == mkdirs(rmtree(files, dir_build_lambda_layer))
        staged == IF tool = "pip" THEN fresh
                  ELSE copy(copy(fresh, path_pyproject_toml,
                                 path_tmp_pyproject_toml),
                            path_lock(tool), path_tmp_lock(tool))
    IN  installed(staged, tool)

\* what it may leave when it fails: the disk as it was, or a fresh build root
partly_built_in_container(files) ==
    {files, mkdirs(rmtree(files, dir_build_lambda_layer))}

\* step_03_docker_run: docker run ... python -u <script>, to the container's
\* exit; the script cannot succeed without the files the tool needs
step_03_docker_run ==
    /\ bld.pc = "docker_run"
    /\ \E code \in ExitCodes :
          /\ code = 0 => needed_files(bld.tool) \subseteq fs
          /\ \E left \in IF code = 0 THEN {built_in_container(fs, bld.tool)}
                         ELSE partly_built_in_container(fs) :
                /\ fs' = left
                /\ bld' = [Step("docker_exit", <<"docker_run">>)
                             EXCEPT !.exit = code, !.runs = @ + 1,
                                    !.tool_left = left]
    /\ UNCHANGED <<mv, seg, cred>>
    /\ UNCHANGED <<publisher_vars, tool_vars>>

\* subprocess.run(self.args) comes back: no check=True, the exit status is
\* not looked at; the step and the build return
subprocess_run ==
    /\ bld.pc = "docker_exit"
    /\ bld' = BuildReturns
    /\ UNCHANGED <<fs, mv, seg, cred>>
    /\ UNCHANGED <<publisher_vars, tool_vars>>

(***************************************************************************)
(* package.py: move_to_dir_python                                          *)
(***************************************************************************)
\* the call is over
MoveEnds(outcome, files) ==
    [mv EXCEPT !.pc = "idle", !.outcome = outcome, !.fs_end = files]

\* the call is made with dir_site_packages = src
MoveCalled(src) ==
    [NoMove EXCEPT !.src = src, !.outcome = "running", !.fs_start = fs]

\* (mutant) the destination is removed before the source is looked at
move_to_dir_python_clearing_first ==
    /\ mv.pc = "idle"
    /\ bld.pc = "idle"
    /\ \E src \in {dir_site_packages, dir_python} :
          IF src \notin fs
          THEN /\ fs' = rmtree(fs, dir_python)
               /\ mv' = [MoveCalled(src) EXCEPT !.outcome = "raised",
                                                !.fs_end = fs']
          ELSE IF src = dir_python
          THEN /\ UNCHANGED fs
               /\ mv' = [MoveCalled(src) EXCEPT !.outcome = "returned",
                                                !.fs_end = fs]
          ELSE /\ UNCHANGED fs
               /\ mv' = [MoveCalled(src) EXCEPT
                           !.pc = IF dir_python \in fs THEN "rmtree" ELSE "move"]
    /\ bld' = NoBuild
    /\ UNCHANGED <<seg, cred>>
    /\ UNCHANGED <<publisher_vars, tool_vars>>

\* move_to_dir_python(dir_site_packages, path_pyproject_toml): the exists()
\* tests; a missing source raises FileNotFoundError, a source that is the
\* destination returns at once
move_to_dir_python ==
    /\ mv.pc = "idle"
    /\ bld.pc = "idle"
    /\ \E src \in {dir_site_packages, dir_python} :
          mv' = IF src \notin fs
                THEN [MoveCalled(src) EXCEPT !.outcome = "raised", !.fs_end = fs]
                ELSE IF src = dir_python
                THEN [MoveCalled(src) EXCEPT !.outcome = "returned",
                                             !.fs_end = fs]
                ELSE [MoveCalled(src) EXCEPT
                        !.pc = IF dir_python \in fs THEN "rmtree" ELSE "move"]
    /\ bld' = NoBuild
    /\ UNCHANGED <<fs, seg, cred>>
    /\ UNCHANGED <<publisher_vars, tool_vars>>

\* shutil.rmtree(dir_python)
move_rmtree ==
    /\ mv.pc = "rmtree"
    /\ fs' = rmtree(fs, dir_python)
    /\ mv' = [mv EXCEPT !.pc = "move"]
    /\ UNCHANGED <<bld, seg, cred>>
    /\ UNCHANGED <<publisher_vars, tool_vars>>

\* shutil.move(dir_site_packages, dir_python), and the return
move_move ==
    /\ mv.pc = "move"
    /\ fs' = move(fs, mv.src, dir_python)
    /\ mv' = MoveEnds("returned", fs')
    /\ UNCHANGED <<bld, seg, cred>>
    /\ UNCHANGED <<publisher_vars, tool_vars>>

\* the process is interrupted during the call
move_interrupt ==
    /\ mv.pc /= "idle"
    /\ mv' = MoveEnds("interrupted", fs)
    /\ UNCHANGED <<fs, bld, seg, cred>>
    /\ UNCHANGED <<publisher_vars, tool_vars>>

(***************************************************************************)
(* The user                                                                *)
(***************************************************************************)
\* the user adds or removes a file at the project root between two calls;
\* the calls made before are then no longer looked at
edit_project ==
    /\ bld.pc = "idle"
    /\ mv.pc = "idle"
    /\ \E f \in ProjectFiles :
          fs' = IF f \in fs THEN fs \ {f} ELSE fs \cup {f}
    /\ bld' = NoBuild
    /\ mv' = NoMove
    /\ UNCHANGED <<seg, cred>>
    /\ UNCHANGED <<publisher_vars, tool_vars>>

\* disks a first call may find: the project files alone, with the archive of
\* an earlier build, or with an installation and an older python directory
Disks ==
    { ProjectFiles,
      ProjectFiles \cup parents(path_build_lambda_layer_zip),
      ProjectFiles \cup parents(dir_site_packages \o pkg)
                   \cup parents(dir_python \o old_pkg) }

InitLocal ==
    /\ InitPublisherIdle
    /\ InitToolsIdle
    /\ fs \in Disks
    /\ bld = NoBuild
    /\ mv = NoMove
    /\ seg = NoSeg
    /\ cred = NoCred

NextLocal ==
    \/ build_layer_artifacts_in_local
    \/ step_02_setup_build_dir
    \/ step_03_prepare_stuff
    \/ step_04_run_install
    \/ subprocess_run_check
    \/ build_layer_artifacts_in_container
    \/ step_01_copy_build_script
    \/ step_02_setup_private_repository_credential
    \/ step_03_docker_run
    \/ subprocess_run
    \/ move_to_dir_python
    \/ move_rmtree
    \/ move_move
    \/ move_interrupt
    \/ edit_project

SpecLocal == InitLocal /\ [][NextLocal]_vars

(***************************************************************************)
(* common.py: the version segment of the versioned manifest paths          *)
(***************************************************************************)
\* widths 1..MaxWidth are rendered, and the width of the package
MaxWidth == 2

\* versions 1..MaxRendered are rendered
MaxRendered == 12

RECURSIVE Pow10(_)
Pow10(n) == IF n = 0 THEN 1 ELSE 10 * Pow10(n - 1)

Min(x, y) == IF x <= y THEN x ELSE y

Widths == (1..MaxWidth) \cup {ZFILL}

\* the versions a segment of width characters is meant for, as far as rendered
VersionsOf(width) == 1..Min(Pow10(width) - 1, MaxRendered)

\* str(layer_version).zfill(ZFILL), for any width
version_segment(version, width) == zfill(str(version), width)

RECURSIVE lex_less(_, _)
\* s < t for two Python strings of decimal digits
lex_less(s, t) ==
    IF Len(s) = 0 THEN Len(t) > 0
    ELSE IF Len(t) = 0 THEN FALSE
    ELSE IF s[1] = t[1] THEN lex_less(Tail(s), Tail(t))
    ELSE DigitVal(s[1]) < DigitVal(t[1])

\* two versions whose paths are asked for
InitRender ==
    /\ InitPublisherIdle
    /\ InitToolsIdle
    /\ fs = {}
    /\ bld = NoBuild
    /\ mv = NoMove
    /\ cred = NoCred
    /\ \E width \in Widths :
          \E a \in VersionsOf(width), b \in VersionsOf(width) :
             seg = [NoSeg EXCEPT !.pc = "called", !.width = width,
                                 !.a = a, !.b = b]

\* get_s3path_layer_requirements_txt / _poetry_lock / _uv_lock for a
get_s3path_layer_a ==
    /\ seg.pc \in {"called", "b"}
    /\ seg.seg_a = <<>>
    /\ seg' = [seg EXCEPT !.pc = IF @ = "called" THEN "a" ELSE "done",
                          !.seg_a = version_segment(seg.a, seg.width)]
    /\ UNCHANGED <<fs, bld, mv, cred>>
    /\ UNCHANGED <<publisher_vars, tool_vars>>

\* the same for b
get_s3path_layer_b ==
    /\ seg.pc \in {"called", "a"}
    /\ seg.seg_b = <<>>
    /\ seg' = [seg EXCEPT !.pc = IF @ = "called" THEN "b" ELSE "done",
                          !.seg_b = version_segment(seg.b, seg.width)]
    /\ UNCHANGED <<fs, bld, mv, cred>>
    /\ UNCHANGED <<publisher_vars, tool_vars>>

NextRender ==
    \/ get_s3path_layer_a
    \/ get_s3path_layer_b

SpecRender == InitRender /\ [][NextRender]_vars

(***************************************************************************)
(* common.py: Credentials.dump and Credentials.load                        *)
(***************************************************************************)
\* username and password have at most MaxLen characters
MaxLen == 1

\* characters of the field values: '"', '\', CR, 'r', U+00E9
Alphabet == {34, 92, CR, 114, 233}

RECURSIVE TextsOfLen(_)
TextsOfLen(n) ==
    IF n = 0 THEN {<<>>}
    ELSE { Append(t, c) : t \in TextsOfLen(n - 1), c \in Alphabet }

\* the strings of at most n characters
Texts(n) == UNION { TextsOfLen(k) : k \in 0..n }

\* the objects dumped: index name and URL of at most one character
CredentialsObjects ==
    [index_name : Texts(1), index_url : Texts(1), username : Texts(MaxLen),
     password : Texts(MaxLen)]

\* os.linesep: POSIX and Windows
Lineseps == {<<LF>>, <<CR, LF>>}

\* dataclasses.asdict(self): the field names, in the order of the fields
field_names ==
    <<<<105, 110, 100, 101, 120, 95, 110, 97, 109, 101>>,
      <<105, 110, 100, 101, 120, 95, 117, 114, 108>>,
      <<117, 115, 101, 114, 110, 97, 109, 101>>,
      <<112, 97, 115, 115, 119, 111, 114, 100>>>>

\* and the values
field_values(c) == <<c.index_name, c.index_url, c.username, c.password>>

\* "0123456789abcdef"
HexDigits ==
    <<48, 49, 50, 51, 52, 53, 54, 55, 56, 57, 97, 98, 99, 100, 101, 102>>

\* '{:04x}'.format(cp)
hex4(cp) ==
    <<HexDigits[((cp \div 4096) % 16) + 1], HexDigits[((cp \div 256) % 16) + 1],
      HexDigits[((cp \div 16) % 16) + 1], HexDigits[(cp % 16) + 1]>>

\* int(esc, 16) for four hexadecimal digits; -1 if one is not a digit
unhex4(t) ==
    IF \A i \in 1..4 : \E j \in 1..16 : HexDigits[j] = t[i]
    THEN LET v(i) == (CHOOSE j \in 1..16 : HexDigits[j] = t[i]) - 1
         IN  4096 * v(1) + 256 * v(2) + 16 * v(3) + v(4)
    ELSE 0 - 1

\* (mutant) no character is escaped
escape_nothing(cp) == <<cp>>

\* json.encoder.py_encode_basestring_ascii, one character: '"', '\' and the
\* control characters get a backslash escape, what is not printable ASCII
\* gets \uXXXX
escape(cp) ==
    IF cp = 34 THEN <<92, 34>>
    ELSE IF cp = 92 THEN <<92, 92>>
    ELSE IF cp = LF THEN <<92, 110>>
    ELSE IF cp = CR THEN <<92, 114>>
    ELSE IF cp = 9 THEN <<92, 116>>
    ELSE IF cp < 32 \/ cp > 126 THEN <<92, 117>> \o hex4(cp)
    ELSE <<cp>>

RECURSIVE escape_all(_)
\* every character of t escaped, half by half
escape_all(t) ==
    IF Len(t) = 0 THEN <<>>
    ELSE IF Len(t) = 1 THEN escape(t[1])
    ELSE escape_all(SubSeq(t, 1, Len(t) \div 2))
             \o escape_all(SubSeq(t, (Len(t) \div 2) + 1, Len(t)))

\* a string as a JSON string literal
json_string(t) == <<34>> \o escape_all(t) \o <<34>>

RECURSIVE json_items(_, _, _)
\* the members from the i-th on: newline, four spaces, "name": "value"
json_items(names, values, i) ==
    IF i > Len(names) THEN <<>>
    ELSE (IF i > 1 THEN <<44>> ELSE <<>>)
         \o <<LF, 32, 32, 32, 32>>
         \o json_string(names[i]) \o <<58, 32>> \o json_string(values[i])
         \o json_items(names, values, i + 1)

\* json.dumps(data, indent=4) of a dict of strings
json_dumps(names, values) ==
    <<123>> \o json_items(names, values, 1) \o <<LF, 125>>

RECURSIVE translate_newlines(_, _)
\* text mode, newline=None, writing: "\n" becomes os.linesep
translate_newlines(t, linesep) ==
    IF Len(t) = 0 THEN <<>>
    ELSE IF Len(t) = 1 THEN (IF t[1] = LF THEN linesep ELSE t)
    ELSE translate_newlines(SubSeq(t, 1, Len(t) \div 2), linesep)
             \o translate_newlines(SubSeq(t, (Len(t) \div 2) + 1, Len(t)),
                                   linesep)

RECURSIVE encode_utf8(_)
\* str.encode("utf-8") for code points below U+0800
encode_utf8(t) ==
    IF Len(t) = 0 THEN <<>>
    ELSE IF Len(t) = 1
    THEN (IF t[1] < 128 THEN t
          ELSE <<192 + (t[1] \div 64), 128 + (t[1] % 64)>>)
    ELSE encode_utf8(SubSeq(t, 1, Len(t) \div 2))
             \o encode_utf8(SubSeq(t, (Len(t) \div 2) + 1, Len(t)))

RECURSIVE decode_utf8(_)
\* bytes.decode("utf-8") of what encode_utf8 gives; the bytes are decoded
\* in two halves, cut in front of a byte that starts a character
decode_utf8(b) ==
    IF Len(b) = 0 THEN <<>>
    ELSE IF Len(b) = 1 THEN b
    ELSE IF Len(b) = 2 /\ b[1] >= 192
    THEN <<(b[1] - 192) * 64 + (b[2] - 128)>>
    ELSE LET half == Len(b) \div 2
             cut == IF b[half + 1] >= 128 /\ b[half + 1] < 192
                    THEN half + 1 ELSE half
         IN  decode_utf8(SubSeq(b, 1, cut))
                 \o decode_utf8(SubSeq(b, cut + 1, Len(b)))

\* Path.write_text(text, encoding="utf-8"): the bytes of the file
Path_write_text_utf8(t, linesep) == encode_utf8(translate_newlines(t, linesep))

\* Path.read_text(encoding="utf-8")
Path_read_text_utf8(b) == universal_newlines(decode_utf8(b))

\* the character at position i of t, -1 past the end
At(t, i) == IF i >= 1 /\ i <= Len(t) THEN t[i] ELSE 0 - 1

\* json.decoder.BACKSLASH: the character an escape letter stands for, -1 if none
unescape(esc) ==
    IF esc \in {34, 92, 47} THEN esc
    ELSE IF esc = 98 THEN 8
    ELSE IF esc = 102 THEN 12
    ELSE IF esc = 110 THEN LF
    ELSE IF esc = 114 THEN CR
    ELSE IF esc = 116 THEN 9
    ELSE 0 - 1

RECURSIVE scanstring(_, _, _)
\* json.decoder.py_scanstring(s, end, strict=True), from position i behind
\* the opening quote: the string, and the position behind the closing quote;
\* a raw control character, an unknown escape or a missing quote is an error
scanstring(t, i, acc) ==
    LET ch == At(t, i)
        esc == At(t, i + 1)
        failed == [ok |-> FALSE, value |-> acc, next |-> i]
    IN  IF ch = 0 - 1 THEN failed
        ELSE IF ch = 34 THEN [ok |-> TRUE, value |-> acc, next |-> i + 1]
        ELSE IF ch = 92
        THEN IF esc = 117
             THEN IF i + 5 <= Len(t) /\ unhex4(SubSeq(t, i + 2, i + 5)) >= 0
                  THEN scanstring(t, i + 6,
                                  Append(acc, unhex4(SubSeq(t, i + 2, i + 5))))
                  ELSE failed
             ELSE IF unescape(esc) >= 0
                  THEN scanstring(t, i + 2, Append(acc, unescape(esc)))
                  ELSE failed
        ELSE IF ch < 32 THEN failed
        ELSE scanstring(t, i + 1, Append(acc, ch))

RECURSIVE skip_whitespace(_, _)
\* json.decoder.WHITESPACE.match
skip_whitespace(t, i) ==
    IF At(t, i) \in {32, 9, LF, CR} THEN skip_whitespace(t, i + 1) ELSE i

RECURSIVE JSONObject(_, _, _)
\* json.decoder.JSONObject for an object of strings, from position i behind
\* "{" or ",": the pairs of name and value
JSONObject(t, i, acc) ==
    LET failed == [ok |-> FALSE, pairs |-> acc]
        at_name == skip_whitespace(t, i)
        name == scanstring(t, at_name + 1, <<>>)
        at_colon == skip_whitespace(t, name.next)
        at_value == skip_whitespace(t, at_colon + 1)
        value == scanstring(t, at_value + 1, <<>>)
        at_end == skip_whitespace(t, value.next)
    IN  IF At(t, at_name) /= 34 THEN failed
        ELSE IF ~name.ok THEN failed
        ELSE IF At(t, at_colon) /= 58 THEN failed
        ELSE IF At(t, at_value) /= 34 THEN failed
        ELSE IF ~value.ok THEN failed
        ELSE IF At(t, at_end) = 44
        THEN CHOOSE r \in { JSONObject(t, j, a) :
                               j \in {at_end + 1},
                               a \in {Append(acc, <<name.value, value.value>>)} } :
                TRUE
        ELSE IF At(t, at_end) = 125
                /\ skip_whitespace(t, at_end + 1) = Len(t) + 1
        THEN [ok |-> TRUE, pairs |-> Append(acc, <<name.value, value.value>>)]
        ELSE failed

\* json.loads(s) of a document that is an object of strings
json_loads(t) ==
    LET at_brace == skip_whitespace(t, 1)
    IN  IF At(t, at_brace) = 123 THEN JSONObject(t, at_brace + 1, <<>>)
        ELSE [ok |-> FALSE, pairs |-> <<>>]

\* the value given for a field name
keyword(pairs, name) ==
    pairs[CHOOSE i \in 1..Len(pairs) : pairs[i][1] = name][2]

\* cls(**d): the dataclass takes exactly its four fields as keywords
accepts(pairs) ==
    /\ Len(pairs) = Len(field_names)
    /\ \A k \in 1..Len(field_names) :
          \E i \in 1..Len(pairs) : pairs[i][1] = field_names[k]

Credentials(pairs) ==
    [index_name |-> keyword(pairs, field_names[1]),
     index_url |-> keyword(pairs, field_names[2]),
     username |-> keyword(pairs, field_names[3]),
     password |-> keyword(pairs, field_names[4])]

\* a Credentials object has been made
InitCredentials ==
    /\ InitPublisherIdle
    /\ InitToolsIdle
    /\ fs = {}
    /\ bld = NoBuild
    /\ mv = NoMove
    /\ seg = NoSeg
    /\ \E c \in CredentialsObjects, linesep \in Lineseps :
          cred = [NoCred EXCEPT !.pc = "made", !.c = c, !.linesep = linesep]

\* Credentials.dump(path)
Credentials_dump ==
    /\ cred.pc = "made"
    /\ cred' = [cred EXCEPT
                  !.pc = "dumped",
                  !.file = Path_write_text_utf8(
                               json_dumps(field_names, field_values(cred.c)),
                               cred.linesep)]
    /\ UNCHANGED <<fs, bld, mv, seg>>
    /\ UNCHANGED <<publisher_vars, tool_vars>>

\* Credentials.load(path)
Credentials_load ==
    /\ cred.pc = "dumped"
    /\ LET d == json_loads(Path_read_text_utf8(cred.file))
       IN  cred' = IF d.ok /\ accepts(d.pairs)
                   THEN [cred EXCEPT !.pc = "loaded", !.outcome = "returned",
                                     !.loaded = Credentials(d.pairs)]
                   ELSE [cred EXCEPT !.pc = "loaded", !.outcome = "raised"]
    /\ UNCHANGED <<fs, bld, mv, seg>>
    /\ UNCHANGED <<publisher_vars, tool_vars>>

NextCredentials ==
    \/ Credentials_dump
    \/ Credentials_load

SpecCredentials == InitCredentials /\ [][NextCredentials]_vars

(***************************************************************************)
(* utils.py: is_match(path_parts, include, exclude)                        *)
(*                                                                         *)
(* A name is a sequence of characters, a relative path a sequence of       *)
(* names, a pattern the sequence of its "/"-separated parts.               *)
(***************************************************************************)
\* longest relative path that is tried
MaxParts == 2

\* longest include list and longest exclude list that are tried
MaxPatterns == 2

\* names of files and folders: "a", "b", "ab"
Names == { <<"a">>, <<"b">>, <<"a", "b">> }

\* the patterns "*b", "a*", "a/*", "**/b"
Patterns == { << <<"*", "b">> >>, << <<"a", "*">> >>,
              << <<"a">>, <<"*">> >>, << <<"*", "*">>, <<"b">> >> }

SeqsUpTo(S, n) == UNION { [1..k -> S] : k \in 0..n }

RECURSIVE fnmatch(_, _)
\* fnmatch.fnmatchcase(name, pat) for patterns of letters and "*"
fnmatch(name, pat) ==
    IF Len(pat) = 0 THEN Len(name) = 0
    ELSE IF pat[1] = "*"
         THEN \/ fnmatch(name, Tail(pat))
              \/ Len(name) > 0 /\ fnmatch(Tail(name), pat)
         ELSE /\ Len(name) > 0
              /\ name[1] = pat[1]
              /\ fnmatch(Tail(name), Tail(pat))

\* Path(*path_parts).match(pattern) for a relative pattern: the pattern's
\* parts are matched against the last parts of the path, one by one; the
\* empty path has no parts
Path_match(path_parts, pattern) ==
    /\ Len(pattern) <= Len(path_parts)
    /\ \A i \in 1..Len(pattern) :
          fnmatch(path_parts[Len(path_parts) - Len(pattern) + i], pattern[i])

any_match(path_parts, patterns) ==
    \E i \in 1..Len(patterns) : Path_match(path_parts, patterns[i])

\* the include list is looked at first
is_match_include_first(path_parts, include, exclude) ==
    IF Len(include) > 0 /\ any_match(path_parts, include) THEN TRUE
    ELSE ~any_match(path_parts, exclude) /\ Len(include) = 0

\* an empty include list includes nothing
is_match_empty_include_is_nothing(path_parts, include, exclude) ==
    ~any_match(path_parts, exclude) /\ any_match(path_parts, include)

\* is_match: excluded paths first, then everything if nothing is asked
\* for, else the paths asked for
is_match(path_parts, include, exclude) ==
    IF any_match(path_parts, exclude) THEN FALSE
    ELSE IF Len(include) = 0 THEN TRUE
    ELSE any_match(path_parts, include)

\* a path and the two lists it is tested against
InitMatch ==
    /\ InitPublisherIdle
    /\ InitLocalIdle
    /\ ctr = NoContainer
    /\ login = NoLogin
    /\ zp = NoZip
    /\ \E path_parts \in SeqsUpTo(Names, MaxParts),
          include \in SeqsUpTo(Patterns, MaxPatterns),
          exclude \in SeqsUpTo(Patterns, MaxPatterns) :
          mt = [NoMatch EXCEPT !.pc = "called", !.path_parts = path_parts,
                               !.include = include, !.exclude = exclude]

is_match_call ==
    /\ mt.pc = "called"
    /\ mt' = [mt EXCEPT !.pc = "returned",
                        !.result = is_match(mt.path_parts, mt.include,
                                            mt.exclude)]
    /\ UNCHANGED <<publisher_vars, local_vars, ctr, login, zp>>

NextMatch ==
    \/ is_match_call

SpecMatch == InitMatch /\ [][NextMatch]_vars

(***************************************************************************)
(* builder.py: BasedLambdaLayerContainerBuilder, and the scripts           *)
(* _build_lambda_layer_using_{pip,poetry,uv}_in_container.py that it runs  *)
(* in the container                                                        *)
(***************************************************************************)
\* where docker mounts the project root
dir_var_task == <<"var", "task">>

\* some other directory
dir_elsewhere == <<"home", "project">>

\* LayerPathLayout.get_path_in_container
get_path_in_container(path_in_local) == dir_var_task \o path_in_local

path_build_lambda_layer_in_container_script_in_container ==
    get_path_in_container(path_build_lambda_layer_in_container_script_in_local)

path_private_repository_credentials_in_container ==
    get_path_in_container(path_private_repository_credentials_in_local)

\* the scripts' path_credentials
script_path_credentials(dir_here) ==
    dir_here \o <<"build", "lambda", "private-repository-credentials.json">>

\* the path on the mounted project root that a path of the container is
mounted(path_in_container) ==
    SubSeq(path_in_container, Len(dir_var_task) + 1, Len(path_in_container))

\* Credentials objects a caller supplies, and one left by an earlier run
Alice == [index_name |-> "corp", index_url |-> "https://corp.example/simple/",
          username |-> "alice", password |-> "alice-token"]
Bob == [index_name |-> "corp", index_url |-> "https://corp.example/simple/",
        username |-> "bob", password |-> "bob-token"]
Stale == [index_name |-> "old", index_url |-> "https://old.example/simple/",
          username |-> "carol", password |-> "carol-token"]

\* credentials: Credentials | None
OptionalCredentials == {<<>>, <<Alice>>, <<Bob>>}

\* the strings of a Credentials object that are secret
secrets(credentials) ==
    UNION { {credentials[i].username, credentials[i].password}
            : i \in 1..Len(credentials) }

image_tag(b) == IF b.is_arm THEN "latest-arm64" ELSE "latest-x86_64"

image_uri(b) ==
    <<"public.ecr.aws/sam", "/build-python">> \o str(b.py_ver_major)
        \o <<".">> \o str(b.py_ver_minor) \o <<":", image_tag(b)>>

platform(b) == IF b.is_arm THEN "linux/arm64" ELSE "linux/amd64"

container_name(b) ==
    <<"lambda_layer_builder", "-python">> \o str(b.py_ver_major)
        \o str(b.py_ver_minor) \o <<"-", IF b.is_arm THEN "arm64" ELSE "amd64">>

\* (mutant) the password goes into the container's environment
docker_run_args_with_env(b) ==
    << <<"docker">>, <<"run">>, <<"--rm">>, <<"--name">>, container_name(b),
       <<"--platform">>, <<platform(b)>> >>
    \o [i \in 1..(2 * Len(b.credentials)) |->
          IF i = 1 THEN <<"-e">> ELSE <<"PASSWORD=", b.credentials[1].password>>]
    \o << <<"--mount">>,
          <<"type=bind,source=", b.dir_project_root, ",target=/var/task">>,
          image_uri(b), <<"python">>, <<"-u">>,
          path_build_lambda_layer_in_container_script_in_container >>

\* BasedLambdaLayerContainerBuilder.docker_run_args: each argument is the
\* sequence of the pieces it is put together from
docker_run_args(b) ==
    << <<"docker">>, <<"run">>, <<"--rm">>, <<"--name">>, container_name(b),
       <<"--platform">>, <<platform(b)>>, <<"--mount">>,
       <<"type=bind,source=", b.dir_project_root, ",target=/var/task">>,
       image_uri(b), <<"python">>, <<"-u">>,
       path_build_lambda_layer_in_container_script_in_container >>

\* the builder object of the running build
builder(c) ==
    [dir_project_root |-> "dir_project_root", py_ver_major |-> 3,
     py_ver_minor |-> 11, is_arm |-> c.is_arm, credentials |-> c.credentials]

\* the commands a script runs before it imports the package
setup_commands(tool) ==
    IF tool = "poetry" THEN <<"pip install poetry", "pip install -r">>
    ELSE IF tool = "uv" THEN <<"install uv", "pip install -r">>
    ELSE <<"pip install -r">>

\* the credentials files present on the disk files, with what they hold
kept(content, files) ==
    [p \in DOMAIN content \cap files |-> content[p]]

\* build_layer_artifacts_using_{pip,poetry,uv}_in_container(...): the builder
\* is made and run() starts; step_1_preflight_check does nothing
container_builder_run ==
    /\ ctr.pc = "idle"
    /\ \E tool \in Tools, is_arm \in BOOLEAN,
          credentials \in OptionalCredentials :
          ctr' = [ctr EXCEPT !.pc = "copy_build_script",
                             !.launched = "builder", !.tool = tool,
                             !.is_arm = is_arm, !.credentials = credentials,
                             !.outcome = "running"]
    /\ UNCHANGED <<publisher_vars, local_vars, mt, login, zp>>

\* step_2_1_copy_build_script
step_2_1_copy_build_script ==
    /\ ctr.pc = "copy_build_script"
    /\ fs' = copy(fs, <<"script">>,
                  path_build_lambda_layer_in_container_script_in_local)
    /\ ctr' = [ctr EXCEPT !.pc = "credential"]
    /\ UNCHANGED <<bld, mv, seg, cred>>
    /\ UNCHANGED <<publisher_vars, mt, login, zp>>

\* step_2_2_setup_private_repository_credential: credentials.dump(path=p);
\* Path.write_text raises when the repo directory is not there
step_2_2_setup_private_repository_credential ==
    /\ ctr.pc = "credential"
    /\ IF ctr.credentials = <<>>
       THEN /\ UNCHANGED fs
            /\ ctr' = [ctr EXCEPT !.pc = "docker_run"]
       ELSE IF dir_repo \notin fs
       THEN /\ UNCHANGED fs
            /\ ctr' = [ctr EXCEPT !.pc = "done", !.outcome = "raised"]
       ELSE /\ fs' = fs \cup {path_private_repository_credentials_in_local}
            /\ ctr' = [ctr EXCEPT
                         !.pc = "docker_run",
                         !.content =
                            [p \in DOMAIN ctr.content
                                   \cup {path_private_repository_credentials_in_local}
                               |-> IF p = path_private_repository_credentials_in_local
                                   THEN ctr.credentials[1]
                                   ELSE ctr.content[p]]]
    /\ UNCHANGED <<bld, mv, seg, cred>>
    /\ UNCHANGED <<publisher_vars, mt, login, zp>>

\* step_3_1_docker_run: subprocess.run(self.docker_run_args) starts the
\* container, which runs the script from the mounted project root
step_3_1_docker_run ==
    /\ ctr.pc = "docker_run"
    /\ ctr' = [ctr EXCEPT !.pc = "verify",
                          !.args = docker_run_args(builder(ctr)),
                          !.dir_here = dir_var_task, !.cwd = dir_var_task,
                          !.script = "running"]
    /\ UNCHANGED <<publisher_vars, local_vars, mt, login, zp>>

\* somebody runs a script with python, from some directory, the script being
\* in some directory
run_script_by_hand ==
    /\ ctr.pc = "idle"
    /\ \E tool \in Tools, dir_here \in {dir_var_task, dir_elsewhere},
          cwd \in {dir_var_task, dir_elsewhere} :
          ctr' = [ctr EXCEPT !.pc = "verify", !.launched = "hand",
                             !.tool = tool, !.dir_here = dir_here,
                             !.cwd = cwd, !.script = "running"]
    /\ UNCHANGED <<publisher_vars, local_vars, mt, login, zp>>

\* the scripts' first lines: dir_here = Path(__file__).absolute().parent is
\* compared with "/var/task" and EnvironmentError is raised if they differ
script_verify_runtime ==
    /\ ctr.pc = "verify"
    /\ ctr' = IF ctr.dir_here /= dir_var_task
              THEN [ctr EXCEPT !.pc = "exit", !.script = "raised"]
              ELSE [ctr EXCEPT !.pc = "setup",
                               !.pending = setup_commands(ctr.tool)]
    /\ UNCHANGED <<publisher_vars, local_vars, mt, login, zp>>

\* subprocess.run(args, check=True) of the next command: a non-zero exit
\* status ends the script with CalledProcessError
script_subprocess_run ==
    /\ ctr.pc = "setup"
    /\ \E code \in ExitCodes :
          ctr' = IF code /= 0
                 THEN [ctr EXCEPT !.pc = "exit", !.script = "raised",
                                  !.events = Append(@, Head(ctr.pending))]
                 ELSE [ctr EXCEPT
                         !.pc = IF Len(ctr.pending) > 1 THEN "setup"
                                ELSE IF ctr.tool = "poetry" THEN "build"
                                ELSE "load",
                         !.pending = Tail(@),
                         !.events = Append(@, Head(ctr.pending))]
    /\ UNCHANGED <<publisher_vars, local_vars, mt, login, zp>>

\* the pip and uv scripts: Credentials.load(path_credentials) if the file
\* exists, else None
script_load_credentials ==
    /\ ctr.pc = "load"
    /\ LET path_credentials == mounted(script_path_credentials(ctr.dir_here))
       IN  ctr' = [ctr EXCEPT
                     !.pc = "build",
                     !.used = IF path_credentials \in fs
                              THEN <<ctr.content[path_credentials]>>
                              ELSE <<>>]
    /\ UNCHANGED <<publisher_vars, local_vars, mt, login, zp>>

\* build_layer_artifacts_using_{pip,poetry,uv}_in_local(..., credentials,
\* skip_prompt=True) in the script: the build root is cleared and made, and
\* the tool installs with the credentials the script passes
script_build_in_local ==
    /\ ctr.pc = "build"
    /\ \E code \in ExitCodes :
          /\ code = 0 => needed_files(ctr.tool) \subseteq fs
          /\ fs' = IF code = 0 THEN built_in_container(fs, ctr.tool)
                   ELSE mkdirs(rmtree(fs, dir_build_lambda_layer))
          /\ ctr' = [ctr EXCEPT
                       !.pc = "exit",
                       !.script = IF code = 0 THEN "returned" ELSE "raised",
                       !.events = @ \o <<"rmtree", "install">>,
                       !.content = kept(@, fs')]
    /\ UNCHANGED <<bld, mv, seg, cred>>
    /\ UNCHANGED <<publisher_vars, mt, login, zp>>

\* the script is over; subprocess.run(self.docker_run_args) does not look at
\* the exit status, step_4_finalize_artifacts does nothing, run() returns
container_exit ==
    /\ ctr.pc = "exit"
    /\ ctr' = [ctr EXCEPT !.pc = "done",
                          !.outcome = IF ctr.launched = "builder"
                                      THEN "returned" ELSE @]
    /\ UNCHANGED <<publisher_vars, local_vars, mt, login, zp>>

\* a credentials file where the scripts look for one
path_credentials_of_the_scripts == mounted(script_path_credentials(dir_var_task))

\* a project never built, one built before, and one that also holds a
\* credentials file where the scripts look for one
InitContainer ==
    /\ InitPublisherIdle
    /\ bld = NoBuild
    /\ mv = NoMove
    /\ seg = NoSeg
    /\ cred = NoCred
    /\ mt = NoMatch
    /\ login = NoLogin
    /\ zp = NoZip
    /\ \/ /\ fs \in {ProjectFiles, ProjectFiles \cup parents(dir_repo)}
          /\ ctr = NoContainer
       \/ /\ fs = ProjectFiles \cup parents(dir_repo)
                     \cup {path_credentials_of_the_scripts}
          /\ ctr = [NoContainer EXCEPT
                      !.content = [p \in {path_credentials_of_the_scripts}
                                     |-> Stale]]

NextContainer ==
    \/ container_builder_run
    \/ step_2_1_copy_build_script
    \/ step_2_2_setup_private_repository_credential
    \/ step_3_1_docker_run
    \/ run_script_by_hand
    \/ script_verify_runtime
    \/ script_subprocess_run
    \/ script_load_credentials
    \/ script_build_in_local
    \/ container_exit

SpecContainer == InitContainer /\ [][NextContainer]_vars

(***************************************************************************)
(* poetry_builder.py, uv_builder.py: _poetry_login, _uv_login              *)
(*                                                                         *)
(* An index name is a sequence of characters, an environment variable's    *)
(* key the sequence of the pieces it is formatted from.                    *)
(***************************************************************************)
\* longest index name that is tried
MaxIndexName == 2

\* characters of an index name
IndexNameCharacters == {"a", "Z", "-", "_"}

IndexNames == UNION { [1..k -> IndexNameCharacters] : k \in 1..MaxIndexName }

\* str.upper, character by character
upper(t) == [i \in 1..Len(t) |-> IF t[i] = "a" THEN "A" ELSE t[i]]

\* str.replace("-", "_")
replace_dash(t) == [i \in 1..Len(t) |-> IF t[i] = "-" THEN "_" ELSE t[i]]

\* source_name = credentials.index_name.replace("-", "_").upper()
source_name(index_name) == upper(replace_dash(index_name))

\* the prefix of the keys the tool reads
key_prefix(tool) ==
    IF tool = "poetry" THEN "POETRY_HTTP_BASIC_" ELSE "UV_INDEX_"

username_key(tool, index_name) ==
    <<key_prefix(tool)>> \o source_name(index_name) \o <<"_USERNAME">>

password_key(tool, index_name) ==
    <<key_prefix(tool)>> \o source_name(index_name) \o <<"_PASSWORD">>

\* os.environ[key] = value
setenv(environ, key, value) ==
    [k \in DOMAIN environ \cup {key} |-> IF k = key THEN value ELSE environ[k]]

\* a Credentials object, a tool, and an environment that is empty or holds
\* an earlier value of the username key
InitLogin ==
    /\ InitPublisherIdle
    /\ InitLocalIdle
    /\ mt = NoMatch
    /\ ctr = NoContainer
    /\ zp = NoZip
    /\ \E tool \in {"poetry", "uv"}, index_name \in IndexNames,
          username \in {"aws", "alice"}, password \in {"alice-token", "t0ken"},
          earlier \in BOOLEAN :
          login = [NoLogin EXCEPT
                     !.pc = "called", !.tool = tool,
                     !.index_name = index_name, !.username = username,
                     !.password = password,
                     !.environ =
                        IF earlier
                        THEN setenv(<<>>, username_key(tool, index_name), "old")
                        ELSE <<>>]

\* _poetry_login(credentials) / _uv_login(credentials)
tool_login ==
    /\ login.pc = "called"
    /\ LET k_user == username_key(login.tool, login.index_name)
           k_pass == password_key(login.tool, login.index_name)
       IN  login' = [login EXCEPT
                       !.pc = "returned",
                       !.environ = setenv(setenv(@, k_user, "aws"),
                                          k_pass, login.password),
                       !.assigned = <<k_user, k_pass>>]
    /\ UNCHANGED <<publisher_vars, local_vars, mt, ctr, zp>>

NextLogin ==
    \/ tool_login

SpecLogin == InitLogin /\ [][NextLogin]_vars

(***************************************************************************)
(* package.py: create_layer_zip_file                                       *)
(*                                                                         *)
(* A package name, a path in the archive and a zip pattern are sequences   *)
(* of pieces of text; "*" in a pattern stands for any text.                *)
(***************************************************************************)
\* most packages that are installed
MaxInstalled == 2

\* longest ignore list that is tried
MaxIgnored == 2

\* names of packages: pip, pipdeptree, pytest, pytest_mock, requests
PackageNames ==
    { <<"pip">>, <<"pip", "deptree">>, <<"pytest">>, <<"pytest", "_mock">>,
      <<"requests">> }

default_ignore_package_list ==
    << <<"boto3">>, <<"botocore">>, <<"s3transfer">>, <<"urllib3">>,
       <<"setuptools">>, <<"pip">>, <<"wheel">>, <<"twine">>, <<"_pytest">>,
       <<"pytest">> >>

\* the ignore lists a caller passes: None, or a list of names
IgnoreLists ==
    {<<>>} \cup { <<l>> : l \in SeqsUpTo(PackageNames, MaxIgnored) }

\* what an installed package is in artifacts/: its directory and a file in it
package_entries(package) ==
    { <<"python/">> \o package \o <<"/">>,
      <<"python/">> \o package \o <<"/", "__init__.py">> }

\* glob.glob("*") in artifacts/, followed by zip -r: python/ and all below it
artifacts_entries(packages) ==
    { <<"python/">> } \cup UNION { package_entries(package) : package \in packages }

\* args.append(f"python/{package}*")
exclude_pattern(package) == <<"python/">> \o package \o <<"*">>

\* the arguments after -x
exclude_args(ignore_package_list) ==
    [i \in 1..Len(ignore_package_list) |->
        exclude_pattern(ignore_package_list[i])]

\* zip <archive> -r -9 <names> -x <patterns>: the entries no pattern matches
zip(entries, patterns) ==
    { e \in entries : ~\E i \in 1..Len(patterns) : fnmatch(e, patterns[i]) }

\* packages installed in artifacts/python and the ignore list of the call
InitZip ==
    /\ InitPublisherIdle
    /\ InitLocalIdle
    /\ mt = NoMatch
    /\ ctr = NoContainer
    /\ login = NoLogin
    /\ \E packages \in { T \in SUBSET PackageNames :
                             Cardinality(T) <= MaxInstalled },
          ignore_package_list \in IgnoreLists :
          zp = [NoZip EXCEPT !.pc = "called", !.installed = packages,
                             !.ignore_package_list = ignore_package_list]

\* create_layer_zip_file(path_pyproject_toml, ignore_package_list)
create_layer_zip_file ==
    /\ zp.pc = "called"
    /\ LET ignored == IF zp.ignore_package_list = <<>>
                      THEN default_ignore_package_list
                      ELSE zp.ignore_package_list[1]
           args == exclude_args(ignored)
       IN  \E code \in ExitCodes :
              zp' = IF code = 0
                    THEN [zp EXCEPT
                            !.pc = "returned", !.args = args,
                            !.archived = zip(artifacts_entries(zp.installed),
                                             args)]
                    ELSE [zp EXCEPT !.pc = "raised", !.args = args]
    /\ UNCHANGED <<publisher_vars, local_vars, mt, ctr, login>>

NextZip ==
    \/ create_layer_zip_file

SpecZip == InitZip /\ [][NextZip]_vars

(***************************************************************************)
(* publish.py: the methods of one LambdaLayerVersionPublisher instance,    *)
(* called by the user one after the other                                  *)
(***************************************************************************)
\* publisher.publish_layer_version() on the instance of the preceding call:
\* the registration, and (layer_version, layer_version_arn) returned; the
\* cached latest_layer_version is not touched
publisher_publish_layer_version ==
    /\ pc = "idle"
    /\ wf.pc = "idle"
    /\ mode \in {"detect", "register", "archive"}
    /\ next_layer_version <= MaxVersion
    /\ mode' = "register"
    /\ prev' = ret
    /\ since' = FALSE
    /\ IF s3path_temp_layer_zip \notin DOMAIN s3
       THEN /\ ret' = Raised("register")
            /\ hist' = NewHist
            /\ UNCHANGED layer_versions
       ELSE /\ layer_versions' = layer_versions \cup {next_layer_version}
            /\ ret' = Registered(
                         int(split_last(LayerVersionArn(next_layer_version))),
                         LayerVersionArn(next_layer_version))
            /\ hist' = [NewHist EXCEPT !.events = <<"register">>]
    /\ UNCHANGED <<manifest, s3, latest_layer_version, pc, flag, response,
                   layer_version, layer_zip, wf>>
    /\ UNCHANGED <<local_vars, tool_vars>>

\* publisher.upload_dependency_manifest(version) on the same instance, with
\* the version the registration returned
publisher_upload_dependency_manifest ==
    /\ pc = "idle"
    /\ wf.pc = "idle"
    /\ mode = "register"
    /\ ret.kind = "registered"
    /\ LET s3path_manifest == archive_key(ret.layer_version)
       IN  /\ s3' = write_bytes(s3path_manifest, Path_read_bytes(manifest))
           /\ hist' = [NewHist EXCEPT !.events = <<"put">>,
                                      !.puts = <<s3path_manifest>>]
           /\ ret' = Uploaded(s3path_manifest)
    /\ mode' = "archive"
    /\ prev' = ret
    /\ since' = FALSE
    /\ UNCHANGED <<manifest, layer_versions, latest_layer_version, pc, flag,
                   response, layer_version, layer_zip, wf>>
    /\ UNCHANGED <<local_vars, tool_vars>>

NextInstance ==
    \/ publish_layer_version
    \/ \E fresh \in BOOLEAN : has_dependency_manifest_changed(fresh)
    \/ query_latest_layer_version
    \/ check_exists
    \/ read_and_compare
    \/ register_layer_version
    \/ upload_dependency_manifest
    \/ publisher_publish_layer_version
    \/ publisher_upload_dependency_manifest
    \/ edit_manifest

SpecInstance == Init /\ [][NextInstance]_vars

Next ==
    \/ publish_layer_version
    \/ \E fresh \in BOOLEAN : has_dependency_manifest_changed(fresh)
    \/ query_latest_layer_version
    \/ check_exists
    \/ read_and_compare
    \/ register_layer_version
    \/ upload_dependency_manifest
    \/ interrupt
    \/ edit_manifest
    \/ delete_object

Spec == Init /\ [][Next]_vars

NextWorkflow ==
    \/ workflow_run
    \/ workflow_package
    \/ workflow_upload
    \/ workflow_publish
    \/ query_latest_layer_version
    \/ check_exists
    \/ read_and_compare
    \/ register_layer_version
    \/ upload_dependency_manifest
    \/ edit_manifest
    \/ delete_layer_zip

SpecWorkflow == InitWorkflow /\ [][NextWorkflow]_vars

(***************************************************************************)
(* Claims                                                                  *)
(***************************************************************************)
\* a call has come back to its caller: ret and hist describe it
Returned == pc = "idle" /\ ret.kind \notin {"none", "interrupted"}

\* a publish_layer_version call has come back and nobody else acted during it
PublishReturned == Returned /\ mode = "publish" /\ ~hist.during

\* nobody has acted since the call came back
Settled == ~since

\* C1: publish_layer_version called when a latest version v exists, a manifest
\* is archived at v's path and the local manifest is identical to it returns
\* None, registers no version and writes no object.
C1_UnchangedIsNoOp ==
    (/\ PublishReturned
     /\ hist.start_latest /= NoVersion
     /\ hist.start_archived /= Absent
     /\ hist.start_manifest = hist.start_archived)
    => /\ ret.kind = "None"
       /\ Count("register") = 0
       /\ Count("put") = 0

\* C2: with no registered version, detection reports True without any query
\* to the bucket, version 1 is registered and the local manifest is archived
\* at layer/000001/<manifest name>.
C2_NoPriorVersion ==
    (PublishReturned /\ hist.start_latest = NoVersion)
    => /\ flag = "True"
       /\ Count("exists") = 0
       /\ Count("read") = 0
       /\ Count("register") = 1
       /\ ret.kind = "LayerDeployment"
       /\ ret.layer_version = 1
       /\ ret.s3path_manifest =
             <<"layer", "/", "0", "0", "0", "0", "0", "1", "/", manifest_name>>
       /\ hist.puts = <<ret.s3path_manifest>>
       /\ Settled => /\ layer_versions = {1}
                     /\ ret.s3path_manifest \in DOMAIN s3
                     /\ s3[ret.s3path_manifest] = hist.start_manifest

C2_Witness ==
    /\ PublishReturned
    /\ hist.start_latest = NoVersion
    /\ Settled
    /\ ret.kind = "LayerDeployment"

\* C3: with a latest version whose manifest object is missing, detection
\* reports True and publish registers a new version, also when the local
\* manifest is the one the previous publish archived.
C3_MissingArchiveIsChanged ==
    (/\ PublishReturned
     /\ hist.start_latest /= NoVersion
     /\ hist.start_archived = Absent)
    => /\ flag = "True"
       /\ Count("read") = 0
       /\ Count("register") = 1
       /\ ret.kind = "LayerDeployment"
       /\ ret.layer_version = hist.start_latest + 1
       /\ Settled => layer_versions = 1..ret.layer_version

\* the previous publish archived this very manifest, the object was removed
\* afterwards, and the next publish registered again
C3_Witness ==
    /\ PublishReturned
    /\ hist.start_latest /= NoVersion
    /\ hist.start_archived = Absent
    /\ prev.kind = "LayerDeployment"
    /\ prev.layer_version = hist.start_latest
    /\ hist.between
    /\ Settled
    /\ s3[ret.s3path_manifest] = hist.start_manifest
    /\ manifest = hist.start_manifest

\* C4: when the archived manifest passes the existence check and then cannot
\* be read, detection raises nothing: the result is True and publication
\* proceeds.
C4_UnreadableIsChanged ==
    (Returned /\ Count("exists") = 1 /\ Count("read_failed") = 1)
    => /\ ret.kind /= "raised"
       /\ flag = "True"

\* C5: with a latest version and an archived manifest, detection returns
\* False exactly when the local and the archived manifest are the same bytes.
C5_ByteForByte ==
    (/\ Returned
     /\ ~hist.during
     /\ hist.start_latest /= NoVersion
     /\ hist.start_archived /= Absent)
    => /\ Count("read") = 1
       /\ (flag = "False") <=> (hist.start_manifest = hist.start_archived)

\* position of the first e among the events of the call, 0 when there is none
First(e) ==
    IF Count(e) = 0 THEN 0
    ELSE CHOOSE i \in 1..Len(hist.events) :
            /\ hist.events[i] = e
            /\ \A j \in 1..(i - 1) : hist.events[j] /= e

\* C6: the registration returns before the manifest is written; the manifest
\* is written once, at the versioned path of the number at the end of the
\* returned identifier; the LayerDeployment carries that number, identifier
\* and path.
C6_RegisterThenArchive ==
    /\ pc = "archive" => Count("register") = 1 /\ Count("put") = 0
    /\ Count("put") > 0 =>
          /\ Count("register") = 1
          /\ Count("put") = 1
          /\ First("register") < First("put")
          /\ hist.puts = <<<<"layer", "/">>
                            \o zfill(split_last(response), ZFILL)
                            \o <<"/", manifest_name>>>>
    /\ (pc = "idle" /\ ret.kind = "LayerDeployment") =>
          /\ Count("put") = 1
          /\ ret.layer_version_arn = response
          /\ ret.layer_version_arn = LayerVersionArn(ret.layer_version)
          /\ ret.s3path_manifest = hist.puts[1]
          /\ ret.layer_name = layer_name

C6_Witness ==
    /\ pc = "idle"
    /\ ret.kind = "LayerDeployment"
    /\ ret.layer_version = 2
    /\ hist.puts = <<<<"layer", "/", "0", "0", "0", "0", "0", "2", "/",
                       manifest_name>>>>

\* C7: after a publish stopped between the registration of v and the archival
\* at v's path, the next publish (same manifest, nobody else acting) detects
\* True, registers a version above v and archives the manifest at its path;
\* it does not return None.
C7_InterruptedIsRepublished ==
    (/\ PublishReturned
     /\ prev.kind = "interrupted"
     /\ prev.at = "archive"
     /\ ~hist.between)
    => /\ flag = "True"
       /\ ret.kind = "LayerDeployment"
       /\ ret.layer_version > prev.layer_version
       /\ hist.start_latest = prev.layer_version
       /\ hist.puts = <<get_versioned_manifest(ret.layer_version)>>
       /\ Settled => Archived(ret.layer_version) = hist.start_manifest

C7_Witness ==
    /\ PublishReturned
    /\ prev.kind = "interrupted"
    /\ prev.at = "archive"
    /\ ~hist.between
    /\ Settled
    /\ ret.kind = "LayerDeployment"
    /\ Archived(prev.layer_version) = Absent

\* C8: after a publish that registered a version and archived its manifest,
\* a second publish with the same manifest and nothing changed in between
\* returns None, registers nothing and writes nothing.
C8_SecondPublishIsNoOp ==
    (/\ PublishReturned
     /\ prev.kind = "LayerDeployment"
     /\ ~hist.between)
    => /\ ret.kind = "None"
       /\ Count("register") = 0
       /\ Count("put") = 0

\* a detection has come back with its result and nobody else acted during it
DetectReturned == Returned /\ mode = "detect" /\ ret.kind = "flag" /\ ~hist.during

\* C9: a step of change detection changes neither the local manifest and
\* archive, nor the bucket, nor the platform's versions; and a detection that
\* directly follows another, with nothing done in between, returns the same
\* result.
C9_DetectionIsPure ==
    /\ [][(mode' = "detect" /\ pc' /= pc)
             => UNCHANGED <<manifest, layer_zip, s3, layer_versions>>]_vars
    /\ []((DetectReturned /\ prev.kind = "flag" /\ ~hist.between)
             => ret.flag = prev.flag)

C9_Witness ==
    /\ DetectReturned
    /\ prev.kind = "flag"
    /\ ~hist.between
    /\ ret.flag = "False"
    /\ Count("get_latest") = 0

\* C10: run() executes Build, Package, Upload and Publish, each once and in
\* that order, every stage after the preceding one has returned.
C10_FourStagesInOrder ==
    (wf.pc = "idle" /\ wf.outcome = "returned")
    => wf.stages = <<"build", "build.return", "package", "package.return",
                     "upload", "upload.return", "publish", "publish.return">>

\* what a run of run() that completes leaves in wf.stages
run_trace ==
    <<"package", "package.return", "upload", "upload.return",
      "publish", "publish.return">>

\* the local archive and the transient remote archive, Absent when not there
durable_outputs ==
    <<layer_zip,
      IF s3path_temp_layer_zip \in DOMAIN s3 THEN s3[s3path_temp_layer_zip]
      ELSE Absent>>

MissingAtStart ==
    bld.where = "local" /\ ~(needed_files(bld.tool) \subseteq bld.fs_start)

\* C12: a local build called while the manifest or the lock file of its tool
\* is missing from the project root never returns normally, and at every
\* point of it, up to and including its failure, the disk is as it was when
\* the build was called: the build root has not been cleared and nothing has
\* been created or deleted.
C12_FailsBeforeClearing ==
    MissingAtStart => (bld.outcome /= "returned" /\ fs = bld.fs_start)

\* C13: when the user declines the confirmation, the build is over with an
\* error, clean is the last step that ran (no copy, no credentials, no
\* install), and the step in which the user declines changes nothing on disk.
C13_DeclinedAborts ==
    /\ [](bld.prompt = "declined"
            => /\ bld.pc = "idle"
               /\ bld.outcome = "raised"
               /\ bld.steps = <<"print_info", "clean">>
               /\ fs = bld.fs_start)
    /\ [][(bld.pc = "setup_build_dir" /\ bld'.prompt = "declined")
             => UNCHANGED fs]_vars

\* the user declined with an archive of an earlier build in the build root
C13_Witness ==
    /\ bld.prompt = "declined"
    /\ bld.outcome = "raised"
    /\ ~bld.skip_prompt
    /\ path_build_lambda_layer_zip \in fs

\* C14: a containerized build whose container exited with a non-zero status
\* ends with an error, and the container was run once.
C14_ContainerFailureRaises ==
    (bld.where = "container" /\ bld.pc = "idle" /\ bld.runs > 0 /\ bld.exit /= 0)
    => (bld.outcome = "raised" /\ bld.runs = 1)

\* C15: when the install command of a local build exits with a non-zero
\* status, the next step of the build raises, runs no further step and
\* leaves the disk as the tool left it; the build never returns normally.
C15_InstallFailureRaises ==
    /\ []((bld.where = "local" /\ bld.pc = "idle" /\ bld.runs > 0 /\ bld.exit /= 0)
            => /\ bld.outcome = "raised"
               /\ bld.steps[Len(bld.steps)] = "install"
               /\ bld.runs = 1
               /\ fs = bld.tool_left)
    /\ [][(bld.pc = "install_exit" /\ bld.exit /= 0)
             => /\ bld'.pc = "idle"
                /\ bld'.outcome = "raised"
                /\ bld'.steps = bld.steps
                /\ UNCHANGED fs]_vars

\* poetry failed after it had made its virtual environment: the environment
\* is still there, without the package
C15_Witness ==
    /\ bld.where = "local"
    /\ bld.tool = "poetry"
    /\ bld.pc = "idle"
    /\ bld.outcome = "raised"
    /\ bld.exit /= 0
    /\ dir_site_packages \in fs
    /\ path_tmp_poetry_lock \in fs
    /\ listing(fs, dir_site_packages) = {}

\* C16: after a local build has returned, whatever the tool, the installed
\* dependency is in <build root>/artifacts/python.
C16_InstalledInPython ==
    (bld.where = "local" /\ bld.pc = "idle" /\ bld.outcome = "returned")
    => pkg \in listing(fs, dir_python)

\* C17: a call of move_to_dir_python whose source directory does not exist
\* ends at once with an error and the disk, the destination included, is as
\* it was when the call was made.
C17_MissingSourceFails ==
    (mv.outcome /= "none" /\ mv.src \notin mv.fs_start)
    => /\ mv.pc = "idle"
       /\ mv.outcome = "raised"
       /\ fs = mv.fs_start
       /\ listing(fs, dir_python) = listing(mv.fs_start, dir_python)

\* the source is missing while the destination holds a package
C17_Witness ==
    /\ mv.outcome = "raised"
    /\ mv.src = dir_site_packages
    /\ dir_site_packages \notin fs
    /\ listing(fs, dir_python) /= {}

\* C18: when the source exists, is not the destination, and the destination
\* exists, then at every point of the call, and after an interruption, the
\* destination exists and holds either all it held or all the source held;
\* once the call has returned it holds what the source held and the source is
\* gone.
C18_ReplacedAtomically ==
    (/\ mv.outcome /= "none"
     /\ mv.src \in mv.fs_start
     /\ mv.src /= dir_python
     /\ dir_python \in mv.fs_start)
    => /\ dir_python \in fs
       /\ listing(fs, dir_python) \in {listing(mv.fs_start, dir_python),
                                       listing(mv.fs_start, mv.src)}
       /\ mv.outcome = "returned"
            => /\ listing(fs, dir_python) = listing(mv.fs_start, mv.src)
               /\ mv.src \notin fs

\* C19: the segments rendered for two versions a and b of the range the
\* width is meant for have exactly width characters each, and the segment of
\* a is before the segment of b as a string exactly when a < b.
C19_SegmentOrder ==
    seg.pc = "done"
    => /\ Len(seg.seg_a) = seg.width
       /\ Len(seg.seg_b) = seg.width
       /\ lex_less(seg.seg_a, seg.seg_b) <=> seg.a < seg.b

\* 9 and 10 at width 2: "09" is before "10"
C19_Witness ==
    /\ seg.pc = "done"
    /\ seg.a = 9
    /\ seg.b = 10
    /\ seg.width = 2
    /\ seg.seg_a = <<"0", "9">>
    /\ lex_less(seg.seg_a, seg.seg_b)

\* C20: load after dump returns, and the object it returns has the index
\* name, the index URL, the username and the password of the object dumped.
C20_DumpLoadRoundTrip ==
    cred.pc = "loaded"
    => /\ cred.outcome = "returned"
       /\ cred.loaded.index_name = cred.c.index_name
       /\ cred.loaded.index_url = cred.c.index_url
       /\ cred.loaded.username = cred.c.username
       /\ cred.loaded.password = cred.c.password

\* a password that is a carriage return and a username that is a quote,
\* through a file written with Windows line ends
C20_Witness ==
    /\ cred.pc = "loaded"
    /\ cred.outcome = "returned"
    /\ cred.c.password = <<CR>>
    /\ cred.c.username = <<34>>
    /\ cred.c.index_url = <<233>>
    /\ cred.linesep = <<CR, LF>>
    /\ cred.loaded = cred.c

\* C21: a path that matches an exclude pattern is reported as not matching,
\* whatever the include list holds.
C21_ExcludeWins ==
    (mt.pc = "returned" /\ any_match(mt.path_parts, mt.exclude))
    => mt.result = FALSE

\* "a/ab" is asked for by "*b" and by "a/*" and excluded by "a*"
C21_Witness ==
    /\ mt.pc = "returned"
    /\ mt.path_parts = << <<"a">>, <<"a", "b">> >>
    /\ mt.include = << << <<"*", "b">> >>, << <<"a">>, <<"*">> >> >>
    /\ mt.exclude = << << <<"a", "*">> >> >>
    /\ any_match(mt.path_parts, mt.include)
    /\ mt.result = FALSE

\* C22: with an empty include list the result is TRUE exactly for the paths
\* no exclude pattern matches; with a non-empty one, exactly for the paths
\* some include pattern matches and no exclude pattern matches.
C22_IncludeThenExclude ==
    mt.pc = "returned"
    => mt.result = (IF mt.include = <<>>
                    THEN ~any_match(mt.path_parts, mt.exclude)
                    ELSE /\ any_match(mt.path_parts, mt.include)
                         /\ ~any_match(mt.path_parts, mt.exclude))

\* "b/a" with nothing asked for and "*b", "**/b" excluded: it matches none
C22_Witness ==
    /\ mt.pc = "returned"
    /\ mt.path_parts = << <<"b">>, <<"a">> >>
    /\ mt.include = <<>>
    /\ mt.exclude = << << <<"*", "b">> >>, << <<"*", "*">>, <<"b">> >> >>
    /\ mt.result = TRUE

\* C23: a script run from a working directory other than /var/task raises
\* at its check, and no process is started, nothing installed and no
\* directory deleted, before or after.
C23_WorkingDirectoryVerified ==
    (ctr.script /= "none" /\ ctr.pc /= "verify" /\ ctr.cwd /= dir_var_task)
    => (ctr.script = "raised" /\ ctr.events = <<>>)

\* C24: the arguments of the container run are those of the same build
\* with any other credentials, none of them holds the username or the
\* password, and the credentials are in the file of the staging directory.
C24_SecretNotInArguments ==
    (ctr.launched = "builder" /\ ctr.args /= <<>>)
    => /\ \A other \in OptionalCredentials :
             docker_run_args([builder(ctr) EXCEPT !.credentials = other])
                = ctr.args
       /\ \A i \in 1..Len(ctr.args) : \A j \in 1..Len(ctr.args[i]) :
             ctr.args[i][j] \notin secrets(ctr.credentials)
       /\ (ctr.credentials /= <<>> /\ ctr.pc = "verify")
          => /\ path_private_repository_credentials_in_local \in fs
             /\ IsUnder(dir_repo, path_private_repository_credentials_in_local)
             /\ ctr.content[path_private_repository_credentials_in_local]
                   = ctr.credentials[1]

\* a container started for a build with Alice's credentials
C24_Witness ==
    /\ ctr.launched = "builder"
    /\ ctr.pc = "verify"
    /\ ctr.credentials = <<Alice>>
    /\ ctr.args = docker_run_args(builder(ctr))
    /\ ctr.content[path_private_repository_credentials_in_local] = Alice

\* C26: the scripts look for the credentials where the builder's file is in
\* the container, and the install in the container runs with the
\* credentials the caller gave the builder, or with none if none was given.
C26_SuppliedCredentialsUsed ==
    (ctr.launched = "builder" /\ ctr.pc = "done" /\ ctr.script = "returned")
    => /\ script_path_credentials(ctr.dir_here)
             = path_private_repository_credentials_in_container
       /\ ctr.used = ctr.credentials

\* position of the step name in the steps of the build, 0 if it was not run
Pos(name) ==
    IF \E i \in 1..Len(bld.steps) : bld.steps[i] = name
    THEN CHOOSE i \in 1..Len(bld.steps) : bld.steps[i] = name
    ELSE 0

\* the manifest of tool at the project root, and its copy in the staging
\* directory
path_manifest(tool) ==
    IF tool = "pip" THEN path_requirements_txt ELSE path_pyproject_toml
path_tmp_manifest(tool) == dir_repo \o path_manifest(tool)

\* the step that copies it
copy_manifest_step(tool) ==
    IF tool = "pip" THEN "copy_requirements_txt" ELSE "copy_pyproject_toml"

\* C25: when the install command of a local build has started, the build
\* root was cleared and made, then the manifest copied into the staging
\* directory, then the credentials (if any) materialised, in this order,
\* and the staging copy of the manifest is on disk.
C25_FixedStepOrder ==
    (bld.where = "local" /\ Pos("install") > 0)
    => /\ 0 < Pos("clean")
       /\ Pos("clean") < Pos("mkdirs")
       /\ Pos("mkdirs") < Pos(copy_manifest_step(bld.tool))
       /\ Pos(copy_manifest_step(bld.tool)) < Pos("install")
       /\ bld.credentials
          => /\ Pos(copy_manifest_step(bld.tool)) < Pos("credentials")
             /\ Pos("credentials") < Pos("install")
       /\ path_tmp_manifest(bld.tool) \in bld.tool_left

\* the key of tool for index_name that ends with suffix: the prefix, the
\* index name with "-" for "_" and in upper case, the suffix
normalized_key(tool, index_name, suffix) ==
    <<IF tool = "poetry" THEN "POETRY_HTTP_BASIC_" ELSE "UV_INDEX_">>
    \o [i \in 1..Len(index_name) |->
          IF index_name[i] = "-" THEN "_"
          ELSE IF index_name[i] = "a" THEN "A"
          ELSE index_name[i]]
    \o <<suffix>>

\* C27: the login sets exactly two environment variables, the username key
\* and the password key of the normalized index name, and their values are
\* the username and the password of the Credentials object.
C27_LoginEnvironment ==
    login.pc = "returned"
    => LET k_user == normalized_key(login.tool, login.index_name, "_USERNAME")
           k_pass == normalized_key(login.tool, login.index_name, "_PASSWORD")
       IN  /\ { login.assigned[i] : i \in 1..Len(login.assigned) }
                = {k_user, k_pass}
           /\ DOMAIN login.environ = {k_user, k_pass}
           /\ login.environ[k_user] = login.username
           /\ login.environ[k_pass] = login.password

\* the names the call ignores: the list passed, or the default list
ignored_names ==
    LET l == IF zp.ignore_package_list = <<>>
             THEN default_ignore_package_list
             ELSE zp.ignore_package_list[1]
    IN  { l[i] : i \in 1..Len(l) }

\* nothing of the package is in the archive
left_out(package) == package_entries(package) \cap zp.archived = {}

\* C28: an installed package is left out of the archive exactly when its
\* name is in the ignore list, and a package whose name is not in the list
\* is archived whole.
C28_IgnoredExactly ==
    zp.pc = "returned"
    => \A package \in zp.installed :
          /\ left_out(package) <=> package \in ignored_names
          /\ package \notin ignored_names
             => package_entries(package) \subseteq zp.archived

\* a step of a publisher call, whatever it does
publisher_step ==
    \/ publish_layer_version
    \/ \E fresh \in BOOLEAN : has_dependency_manifest_changed(fresh)
    \/ query_latest_layer_version
    \/ check_exists
    \/ read_and_compare
    \/ register_layer_version
    \/ upload_dependency_manifest
    \/ interrupt

\* the objects of the bucket other than the one at key are as they were
others_kept(key) ==
    /\ DOMAIN s3' \ {key} = DOMAIN s3 \ {key}
    /\ \A k \in DOMAIN s3 \ {key} : s3'[k] = s3[k]

\* C29: a publish call writes at most one object, the manifest at the
\* versioned path of the version it has just registered; every other
\* object of the bucket, the archives of the earlier versions and the
\* transient layer.zip among them, is left as it was by every step of it.
C29_PublishFrame ==
    /\ [](Len(hist.puts) <= 1)
    /\ [][publisher_step =>
            \/ UNCHANGED s3
            \/ /\ hist'.puts = <<get_versioned_manifest(Max(layer_versions))>>
               /\ hist.puts = <<>>
               /\ Count("register") = 1
               /\ s3'[hist'.puts[1]] = manifest
               /\ hist'.puts[1] /= s3path_temp_layer_zip
               /\ \A v \in layer_versions \ {Max(layer_versions)} :
                     hist'.puts[1] /= get_versioned_manifest(v)
               /\ others_kept(hist'.puts[1])]_vars

\* the second publish has archived the manifest of version 2; the archive of
\* version 1 and the transient layer.zip are in the bucket
C29_Witness ==
    /\ pc = "idle"
    /\ ret.kind = "LayerDeployment"
    /\ ret.layer_version = 2
    /\ hist.puts = <<get_versioned_manifest(2)>>
    /\ get_versioned_manifest(1) \in DOMAIN s3
    /\ s3[get_versioned_manifest(1)] /= s3[get_versioned_manifest(2)]
    /\ s3path_temp_layer_zip \in DOMAIN s3

\* what a detection that compares against version answers
flag_against(version) ==
    IF version = NoVersion THEN "True"
    ELSE IF get_versioned_manifest(version) \notin DOMAIN s3 THEN "True"
    ELSE IF contents_differ(manifest, s3[get_versioned_manifest(version)])
         THEN "True"
    ELSE "False"

====
